---- MODULE Spec2Model ----
(***************************************************************************)
(* A model of the lighthouse_network service core                          *)
(* (beacon_node/lighthouse_network/src/service/mod.rs): the Network facade *)
(* over the metadata file, the RPC layer, the peer manager and gossipsub.  *)
(*                                                                         *)
(* The facade runs on one thread.  Each part of it is checked under its    *)
(* own specification over the shared variables:                            *)
(*   SpecMeta    update_enr_subnet / update_metadata_bitfields             *)
(*   SpecRpcEvent  inject_rpc_event on every RPC message                   *)
(*   SpecRpc     send_request and the life of an outbound request          *)
(*   SpecGossip  the subscription facade (subscribe .. fork topics)        *)
(*   SpecLaw     the same facade with the subscribe/unsubscribe history    *)
(*   SpecFork    the same facade with the fork-transition history          *)
(*   SpecSteps   subscribe and unsubscribe split at the gossipsub call     *)
(*   SpecCall    the same facade with the last fork call and its input     *)
(*   SpecCache   publish, the retry cache and the Subscribed event         *)
(*   SpecPoll    poll_network over the queue of swarm events               *)
(*   SpecTimers  poll_network with the score timer and the cache expiry    *)
(*   SpecTimersLive  SpecTimers with a host that keeps polling             *)
(*   SpecPm      poll_network over the peer manager events                 *)
(*   SpecBehaviours  poll_network over identify and slow-peer events       *)
(*   SpecScore   update_gossipsub_parameters and update_fork_version       *)
(*   SpecDigest  the calls that read or set the active fork digest         *)
(*   SpecBuilder the gossip cache timeouts on every chain configuration    *)
(*   SpecDisc    discover_subnet_peers                                     *)
(*   SpecStart   start on every configuration                              *)
(*   SpecBan     report_peer(Fatal) up to the ban (SpecBanLive: with the   *)
(*               host polling)                                             *)
(***************************************************************************)
EXTENDS Integers, Sequences, FiniteSets, TLC

(***************************************************************************)
(* Bounds of the model.                                                    *)
(***************************************************************************)
\* largest metadata sequence number reached (seq_number is a u64 in the code)
MaxSeq == 3
\* number of application request ids handed to send_request
MaxReq == 2
\* payloads the gossip cache holds for one topic
MaxCache == 2
\* swarm events that arrive in a run
MaxEvents == 3
\* ticks of the score-update timer that can be waiting for a poll
MaxTicks == 2
\* largest number of good peers on a subnet
MaxGood == 4
\* listen addresses in a configuration
MaxListen == 2

VARIABLES
    \* ---- metadata (NetworkGlobals::local_metadata, the metadata file, RPC)
    enr_bits,          \* subnets set in the local ENR's attnets/syncnets bitfields
    local_metadata,    \* network_globals.local_metadata
    disk_metadata,     \* contents of <network_dir>/metadata
    rpc_seq_number,    \* the sequence number the RPC layer advertises in pings
    meta_pc,           \* position inside update_enr_subnet
    meta_clone,        \* the local `meta_data` clone of update_metadata_bitfields
    meta_call_seq,     \* sequence number when the running/last call was entered
    meta_call_in,      \* history: that call's arguments, answer and the ENR before
    \* ---- RPC
    peer_state,        \* per peer: connected / disconnecting / disconnected
    requests,          \* per application request id: the outbound request's state
    surfaced,          \* per application request id: terminal public events, in order
    rpc_in,            \* the RPCMessage last given to inject_rpc_event
    rpc_out,           \* what that call returned (Option<NetworkEvent>)
    pm_calls,          \* peer-manager / RPC calls that call made, in order
    \* ---- gossip subscriptions
    gossipsub_subscriptions,  \* network_globals.gossipsub_subscriptions
    gs_subscribed,     \* topics the gossipsub behaviour reports subscribed
    enr_fork_id,       \* fork digest of Network::enr_fork_id
    law,               \* history: the last subscribe(t) and the set before it
    watch,             \* history: the last subscribe_new_fork_topics call
    call,              \* history: the last fork call, its arguments, the set before
    sub_pc,            \* position inside a split subscribe/unsubscribe
    sub_topic,         \* its topic
    \* ---- gossip publishing and the retry cache
    gossip_cache,      \* Network::gossip_cache: per topic, the payloads waiting
    gs_publishes,      \* gossipsub.publish calls of the last handler, in order
    gs_out,            \* what the last gossip handler returned (Option<NetworkEvent>)
    gs_failed,         \* failed-publish gauge increments of the last handler
    cache_op,          \* history: the last handler, its input, the cache before
    \* ---- poll_network
    swarm_queue,       \* swarm events ready and not yet taken, in arrival order
    poll_ret,          \* what the last poll_network returned: Ready(ev) or Pending
    poll_arrived,      \* history: every swarm event that arrived, in order
    poll_dispatched,   \* history: the swarm events dispatched, in order
    poll_emitted,      \* history: the events returned Ready, in order
    poll_taken,        \* number of swarm events the last poll dispatched
    poll_calls,        \* calls on the sub-behaviours made by the last poll, in order
    score_ticks,       \* elapsed ticks of update_gossipsub_scores not yet taken
    cache_ready,       \* expired topics the gossip cache stream has ready
    disc_banned,       \* peers in the discovery ban list
    closing,           \* peers the RPC behaviour was asked to shut down
    fatal,             \* peers reported Fatal to the peer manager
    \* ---- subnet discovery
    disc_started,      \* discovery().started
    cached_enrs,       \* discovery().cached_enrs(): ENRs with the subnets they serve
    good_peers,        \* per subnet: network_globals.peers good_peers_on_subnet count
    disc_in,           \* history: the last discover_subnet_peers input, the cache before
    disc_out,          \* what that call did: dials, DHT queries, extended TTLs
    \* ---- startup
    config,            \* the NetworkConfig given to start, with the answers of the swarm
    start_out,         \* what start returned and the calls it made, in order
    \* ---- score parameters
    score_in,          \* history: the last update_gossipsub_parameters input
    score_out,         \* what that call returned and its set_topic_params calls
    \* ---- the gossip cache builder of Network::new
    chain_spec,        \* ctx.chain_spec.seconds_per_slot and E::slots_per_epoch()
    cache_ttl          \* the timeouts the gossip cache was built with, in seconds

metaVars == <<enr_bits, local_metadata, disk_metadata, rpc_seq_number, meta_pc,
              meta_clone, meta_call_seq, meta_call_in>>
rpcVars == <<peer_state, requests, surfaced, rpc_in, rpc_out, pm_calls>>
subVars == <<gossipsub_subscriptions, gs_subscribed, enr_fork_id>>
histVars == <<law, watch, call>>
stepVars == <<sub_pc, sub_topic>>
cacheVars == <<gossip_cache, gs_publishes, gs_out, gs_failed, cache_op>>
pollVars == <<swarm_queue, poll_ret, poll_arrived, poll_dispatched, poll_emitted,
              poll_taken, poll_calls, score_ticks, cache_ready, disc_banned, closing,
              fatal>>
discVars == <<disc_started, cached_enrs, good_peers, disc_in, disc_out>>
startVars == <<config, start_out>>
scoreVars == <<score_in, score_out>>
builderVars == <<chain_spec, cache_ttl>>
vars == <<metaVars, rpcVars, subVars, histVars, stepVars, cacheVars, pollVars, discVars,
          startVars, scoreVars, builderVars>>

\* what a step of one part leaves alone
NotMeta ==
    UNCHANGED <<rpcVars, subVars, histVars, stepVars, cacheVars, pollVars, discVars, startVars, scoreVars, builderVars>>
NotRpc ==
    UNCHANGED <<metaVars, subVars, histVars, stepVars, cacheVars, pollVars, discVars, startVars, scoreVars, builderVars>>
NotGossip ==
    UNCHANGED <<metaVars, rpcVars, cacheVars, pollVars, discVars, startVars, scoreVars, builderVars>>
NotCache ==
    UNCHANGED <<metaVars, rpcVars, histVars, stepVars, pollVars, discVars, startVars, scoreVars, builderVars>>
NotPoll ==
    UNCHANGED <<metaVars, rpcVars, subVars, histVars, stepVars, cacheVars, discVars, startVars, scoreVars, builderVars>>
NotDisc ==
    UNCHANGED <<metaVars, rpcVars, subVars, histVars, stepVars, cacheVars, pollVars, startVars, scoreVars, builderVars>>

(***************************************************************************)
(* Metadata: update_enr_subnet and update_metadata_bitfields.              *)
(***************************************************************************)
\* Subnet: Attestation(id) and SyncCommittee(id)
Subnets == {<<"Attestation", 0>>, <<"Attestation", 1>>, <<"SyncCommittee", 0>>}

attestation_bitfield(enr) == {s \in enr : s[1] = "Attestation"}
sync_committee_bitfield(enr) == {s \in enr : s[1] = "SyncCommittee"}

MetaData(seq, attnets, syncnets) ==
    [seq_number |-> seq, attnets |-> attnets, syncnets |-> syncnets]

\* Discovery::update_enr_bitfield: on Ok the bit of the local ENR has the
\* requested value, on Err the ENR is as before.
update_enr_bitfield(enr, subnet, value, ok) ==
    IF ~ok THEN enr
    ELSE IF value THEN enr \cup {subnet} ELSE enr \ {subnet}

\* Mutant of BumpedMetaData: the metadata is touched only when a bitfield of
\* the ENR differs from it.
BumpedMetaDataIfChanged(md, enr) ==
    IF attestation_bitfield(enr) = md.attnets /\ sync_committee_bitfield(enr) = md.syncnets
    THEN md
    ELSE MetaData(md.seq_number + 1, attestation_bitfield(enr),
                  sync_committee_bitfield(enr))

\* the arguments of an update_enr_subnet call, what update_enr_bitfield
\* answered, and the ENR bits before the call
EnrSubnetCall(subnet, value, ok, enr) ==
    [subnet |-> subnet, value |-> value, ok |-> ok, enr |-> enr]
NoEnrSubnetCall == EnrSubnetCall(<<"-", 0>>, FALSE, TRUE, {})

\* Mutant of BumpedMetaData: the sequence number is not incremented.
BumpedMetaDataSameSeq(md, enr) ==
    MetaData(md.seq_number, attestation_bitfield(enr), sync_committee_bitfield(enr))

\* The write-lock scope of update_metadata_bitfields: the metadata after it.
BumpedMetaData(md, enr) ==
    MetaData(md.seq_number + 1, attestation_bitfield(enr), sync_committee_bitfield(enr))

\* utils::save_metadata_to_disk: a full replacement of the file.
save_metadata_to_disk(file, md) == md

\* update_enr_subnet up to the end of the write-lock scope of
\* update_metadata_bitfields (lines 1049-1146).
update_enr_subnet(subnet, value, ok) ==
    /\ meta_pc = "idle"
    /\ local_metadata.seq_number < MaxSeq
    /\ LET enr == update_enr_bitfield(enr_bits, subnet, value, ok)
           md == BumpedMetaData(local_metadata, enr)
       IN /\ enr_bits' = enr
          /\ local_metadata' = md
          /\ meta_clone' = md
    /\ meta_call_seq' = local_metadata.seq_number
    /\ meta_call_in' = EnrSubnetCall(subnet, value, ok, enr_bits)
    /\ meta_pc' = "locked"
    /\ UNCHANGED <<disk_metadata, rpc_seq_number>>
    /\ NotMeta

\* self.eth2_rpc_mut().update_seq_number(seq_number)  (line 1147)
update_seq_number ==
    /\ meta_pc = "locked"
    /\ rpc_seq_number' = meta_clone.seq_number
    /\ meta_pc' = "notified"
    /\ UNCHANGED <<enr_bits, local_metadata, disk_metadata, meta_clone, meta_call_seq,
                   meta_call_in>>
    /\ NotMeta

\* utils::save_metadata_to_disk(&self.network_dir, meta_data)  (line 1149),
\* after which update_enr_subnet returns.
save_metadata ==
    /\ meta_pc = "notified"
    /\ disk_metadata' = save_metadata_to_disk(disk_metadata, meta_clone)
    /\ meta_pc' = "idle"
    /\ UNCHANGED <<enr_bits, local_metadata, rpc_seq_number, meta_clone, meta_call_seq,
                   meta_call_in>>
    /\ NotMeta

\* Network::new: the metadata is loaded from (or built and saved to) the file
\* and RPC::new is given its sequence number.
InitMeta ==
    /\ enr_bits = {}
    /\ \E s \in 0..1 :
          local_metadata = MetaData(s, attestation_bitfield(enr_bits),
                                    sync_committee_bitfield(enr_bits))
    /\ disk_metadata = local_metadata
    /\ rpc_seq_number = local_metadata.seq_number
    /\ meta_pc = "idle"
    /\ meta_clone = local_metadata
    /\ meta_call_seq = local_metadata.seq_number
    /\ meta_call_in = NoEnrSubnetCall

NextMeta ==
    \/ \E subnet \in Subnets, value \in BOOLEAN, ok \in BOOLEAN :
          update_enr_subnet(subnet, value, ok)
    \/ update_seq_number
    \/ save_metadata

(***************************************************************************)
(* RPC: send_request, build_response and inject_rpc_event.                 *)
(***************************************************************************)
Peers == {"p1", "p2"}
PeerStates == {"connected", "disconnecting", "disconnected"}
AppIds == 1..MaxReq

\* swarm.is_connected(peer): a connection to the peer is established
swarm_is_connected(p) == peer_state[p] # "disconnected"
\* peer_manager().is_connected(peer): the peer db has the peer as Connected
pm_is_connected(p) == peer_state[p] = "connected"

\* RequestId
Internal == [tag |-> "Internal", id |-> 0]
Application(n) == [tag |-> "Application", id |-> n]

\* RequestType, RpcSuccessResponse and ResponseTermination variants
RequestTypes ==
    {"Ping", "MetaData", "Goodbye", "Status", "BlocksByRange", "BlocksByRoot",
     "BlobsByRange", "BlobsByRoot", "DataColumnsByRoot", "DataColumnsByRange",
     "LightClientBootstrap", "LightClientOptimisticUpdate",
     "LightClientFinalityUpdate"}
ResponseTypes ==
    {"Pong", "MetaData", "Status", "BlocksByRange", "BlobsByRange", "BlocksByRoot",
     "BlobsByRoot", "DataColumnsByRoot", "DataColumnsByRange",
     "LightClientBootstrap", "LightClientOptimisticUpdate",
     "LightClientFinalityUpdate"}
ResponseTerminations ==
    {"BlocksByRange", "BlocksByRoot", "BlobsByRange", "BlobsByRoot",
     "DataColumnsByRoot", "DataColumnsByRange"}
RPCErrors == {"Disconnected", "StreamTimeout", "ErrorResponse"}

\* RPCMessage { peer_id, conn_id, message }, with the peer manager's answer to
\* is_connected(peer_id) at the time it is handled.
\*   msg: InboundErr | OutboundErr | Request | Response | EndOfStream
RPCMessage(peer, connected, msg, id, type, step, error) ==
    [peer_id |-> peer, connected |-> connected, msg |-> msg, id |-> id,
     type |-> type, step |-> step, error |-> error]
NoMessage == RPCMessage("-", FALSE, "-", Internal, "-", 1, "-")

\* NetworkEvent (Option<NetworkEvent>: ev = "None" is None)
NetworkEvent(ev, peer, id, body) ==
    [ev |-> ev, peer_id |-> peer, id |-> id, body |-> body]
None == NetworkEvent("None", "-", 0, <<>>)

\* Mutant of build_response: the id's tag is not looked at.
build_response_untagged(id, peer_id, response) ==
    NetworkEvent("ResponseReceived", peer_id, id.id, response)

\* Network::build_response
build_response(id, peer_id, response) ==
    IF id.tag = "Application"
    THEN NetworkEvent("ResponseReceived", peer_id, id.id, response)
    ELSE None

\* Mutant of the guard: every event of a peer that is not connected is dropped.
IgnoredDropAll(m) == ~m.connected
\* Mutant of the guard: nothing is dropped.
IgnoredDropNone(m) == FALSE

\* The guard that opens inject_rpc_event (lines 1372-1378).
Ignored(m) ==
    ~m.connected /\ (m.msg = "InboundErr" \/ m.msg = "Request")

Handled(out, calls) == [out |-> out, calls |-> calls]

\* Mutant of InjectRequest: the step of a BlocksByRange request is not looked
\* at.
InjectRequestAnyStep(m, md) ==
    LET received == NetworkEvent("RequestReceived", m.peer_id, 0, <<m.type, m.step>>)
    IN CASE m.type = "Ping" ->
              Handled(None, << <<"ping_request", m.peer_id>> >>)
         [] m.type = "MetaData" ->
              Handled(None, << <<"send_response", m.peer_id, "MetaData", md>> >>)
         [] m.type = "Goodbye" ->
              Handled(None, <<>>)
         [] m.type = "Status" ->
              Handled(received, << <<"peer_statusd", m.peer_id>> >>)
         [] OTHER ->
              Handled(received, <<>>)

\* inject_rpc_event, Ok(RPCReceived::Request(request))  (lines 1418-1565)
InjectRequest(m, md) ==
    LET received == NetworkEvent("RequestReceived", m.peer_id, 0, <<m.type, m.step>>)
    IN CASE m.type = "Ping" ->
              Handled(None, << <<"ping_request", m.peer_id>> >>)
         [] m.type = "MetaData" ->
              Handled(None, << <<"send_response", m.peer_id, "MetaData", md>> >>)
         [] m.type = "Goodbye" ->
              Handled(None, <<>>)
         [] m.type = "Status" ->
              Handled(received, << <<"peer_statusd", m.peer_id>> >>)
         [] m.type = "BlocksByRange" ->
              IF m.step = 0
              THEN Handled(None, << <<"handle_rpc_error", m.peer_id, "BlocksByRange",
                                      "InvalidData", "Incoming">> >>)
              ELSE Handled(received, <<>>)
         [] OTHER ->
              Handled(received, <<>>)

\* Mutant of InjectResponse: Pong and MetaData are propagated like the other
\* responses.
InjectResponseAllPropagated(m) ==
    Handled(build_response(m.id, m.peer_id, <<m.type, "msg">>), <<>>)

\* Mutant of InjectResponse: a streamed response is propagated without its
\* payload.
InjectResponseNoPayload(m) ==
    CASE m.type = "Pong" ->
           Handled(None, << <<"pong_response", m.peer_id>> >>)
      [] m.type = "MetaData" ->
           Handled(None, << <<"meta_data_response", m.peer_id>> >>)
      [] m.type = "Status" ->
           Handled(build_response(m.id, m.peer_id, <<"Status", "msg">>),
                   << <<"peer_statusd", m.peer_id>> >>)
      [] OTHER ->
           Handled(build_response(m.id, m.peer_id, <<m.type, "None">>), <<>>)

\* inject_rpc_event, Ok(RPCReceived::Response(id, resp))  (lines 1566-1618)
InjectResponse(m) ==
    CASE m.type = "Pong" ->
           Handled(None, << <<"pong_response", m.peer_id>> >>)
      [] m.type = "MetaData" ->
           Handled(None, << <<"meta_data_response", m.peer_id>> >>)
      [] m.type = "Status" ->
           Handled(build_response(m.id, m.peer_id, <<"Status", "msg">>),
                   << <<"peer_statusd", m.peer_id>> >>)
      [] m.type \in ResponseTerminations ->
           Handled(build_response(m.id, m.peer_id, <<m.type, "Some">>), <<>>)
      [] OTHER ->
           Handled(build_response(m.id, m.peer_id, <<m.type, "msg">>), <<>>)

\* Network::inject_rpc_event: the event returned and the calls made on the
\* peer manager and the RPC layer.
inject_rpc_event(m, md) ==
    IF Ignored(m) THEN Handled(None, <<>>)
    ELSE CASE m.msg = "InboundErr" ->
                Handled(None, << <<"handle_rpc_error", m.peer_id, m.type, m.error,
                                   "Incoming">> >>)
           [] m.msg = "OutboundErr" ->
                Handled(IF m.id.tag = "Application"
                        THEN NetworkEvent("RPCFailed", m.peer_id, m.id.id, <<m.error>>)
                        ELSE None,
                        << <<"handle_rpc_error", m.peer_id, m.type, m.error,
                             "Outgoing">> >>)
           [] m.msg = "Request" -> InjectRequest(m, md)
           [] m.msg = "Response" -> InjectResponse(m)
           [] m.msg = "EndOfStream" ->
                Handled(build_response(m.id, m.peer_id, <<m.type, "None">>), <<>>)

\* The protocols and errors the handler errors of the model carry.
Protocols == {"Ping", "MetaData", "Status", "BlocksByRange"}
RequestIds == {Internal} \cup {Application(n) : n \in AppIds}

\* One call of inject_rpc_event from poll_network (line 1762), observed.
rpc_event(m) ==
    LET h == inject_rpc_event(m, local_metadata)
    IN /\ rpc_in' = m
       /\ rpc_out' = h.out
       /\ pm_calls' = h.calls
       /\ UNCHANGED <<peer_state, requests, surfaced>>
       /\ NotRpc

\* The RPC layer hands over an inbound request.
rpc_inbound_request(p, type, step) ==
    rpc_event(RPCMessage(p, pm_is_connected(p), "Request", Internal, type, step, "-"))

\* The RPC layer hands over HandlerErr::Inbound.
rpc_inbound_error(p, proto, error) ==
    rpc_event(RPCMessage(p, pm_is_connected(p), "InboundErr", Internal, proto, 1, error))

\* The RPC layer hands over HandlerErr::Outbound for a request with this id.
rpc_outbound_error(p, id, proto, error) ==
    rpc_event(RPCMessage(p, pm_is_connected(p), "OutboundErr", id, proto, 1, error))

\* The RPC layer hands over a response to a request with this id.
rpc_response(p, id, type) ==
    rpc_event(RPCMessage(p, pm_is_connected(p), "Response", id, type, 1, "-"))

\* The RPC layer hands over the end of a response stream.
rpc_end_of_stream(p, id, termination) ==
    rpc_event(RPCMessage(p, pm_is_connected(p), "EndOfStream", id, termination, 1, "-"))

NextRpcEvent ==
    \/ \E p \in Peers, type \in RequestTypes, step \in 0..1 :
          rpc_inbound_request(p, type, step)
    \/ \E p \in Peers, proto \in Protocols, error \in RPCErrors :
          rpc_inbound_error(p, proto, error)
    \/ \E p \in Peers, id \in RequestIds, proto \in Protocols, error \in RPCErrors :
          rpc_outbound_error(p, id, proto, error)
    \/ \E p \in Peers, id \in RequestIds, type \in ResponseTypes :
          rpc_response(p, id, type)
    \/ \E p \in Peers, id \in RequestIds, termination \in ResponseTerminations :
          rpc_end_of_stream(p, id, termination)

(***************************************************************************)
(* The life of an application request: send_request, then what the RPC     *)
(* layer makes of it, each message passing through inject_rpc_event.       *)
(***************************************************************************)
\* the request kinds the application sends in the model: one with a single
\* response and one that streams
SentKinds == {"Status", "BlocksByRange"}

Request(st, peer, kind, error) ==
    [st |-> st, peer |-> peer, kind |-> kind, error |-> error]
Unused == Request("unused", "-", "-", "-")

\* A terminal public event: the end-of-stream marker or RPCFailed.
Terminal(ev) ==
    \/ ev.ev = "RPCFailed"
    \/ ev.ev = "ResponseReceived" /\ ev.body[2] = "None"

\* inject_rpc_event on a message of the request `n`; its terminal events are kept.
Surface(n, m) ==
    LET h == inject_rpc_event(m, local_metadata)
    IN surfaced' = IF Terminal(h.out) /\ h.out.id = n
                   THEN [surfaced EXCEPT ![n] = Append(@, h.out)]
                   ELSE surfaced

\* Network::send_request
send_request(p, n, kind) ==
    /\ requests[n].st = "unused"
    /\ requests' = [requests EXCEPT ![n] =
           IF ~swarm_is_connected(p)
           THEN Request("rejected", p, kind, "Disconnected")
           ELSE Request("open", p, kind, "-")]
    /\ UNCHANGED <<peer_state, surfaced, rpc_in, rpc_out, pm_calls>>
    /\ NotRpc

\* The peer answers an open request.  A request with a single response is
\* over with it; a streamed one stays open.
request_response(n) ==
    LET r == requests[n]
    IN /\ r.st = "open"
       /\ swarm_is_connected(r.peer)
       /\ Surface(n, RPCMessage(r.peer, pm_is_connected(r.peer), "Response",
                                Application(n), r.kind, 1, "-"))
       /\ requests' = IF r.kind \in ResponseTerminations THEN requests
                      ELSE [requests EXCEPT ![n].st = "answered"]
       /\ UNCHANGED <<peer_state, rpc_in, rpc_out, pm_calls>>
       /\ NotRpc

\* The peer ends the stream of an open streamed request.
request_end_of_stream(n) ==
    LET r == requests[n]
    IN /\ r.st = "open"
       /\ r.kind \in ResponseTerminations
       /\ swarm_is_connected(r.peer)
       /\ Surface(n, RPCMessage(r.peer, pm_is_connected(r.peer), "EndOfStream",
                                Application(n), r.kind, 1, "-"))
       /\ requests' = [requests EXCEPT ![n].st = "eos"]
       /\ UNCHANGED <<peer_state, rpc_in, rpc_out, pm_calls>>
       /\ NotRpc

\* An open request fails: with Disconnected once the connection is closed,
\* with another error while it is up.
request_fails(n, error) ==
    LET r == requests[n]
    IN /\ r.st = "open"
       /\ IF swarm_is_connected(r.peer) THEN error # "Disconnected"
                                        ELSE error = "Disconnected"
       /\ Surface(n, RPCMessage(r.peer, pm_is_connected(r.peer), "OutboundErr",
                                Application(n), r.kind, 1, error))
       /\ requests' = [requests EXCEPT ![n].st = "failed", ![n].error = error]
       /\ UNCHANGED <<peer_state, rpc_in, rpc_out, pm_calls>>
       /\ NotRpc

\* The peer manager starts to disconnect a connected peer.
peer_disconnecting(p) ==
    /\ peer_state[p] = "connected"
    /\ peer_state' = [peer_state EXCEPT ![p] = "disconnecting"]
    /\ UNCHANGED <<requests, surfaced, rpc_in, rpc_out, pm_calls>>
    /\ NotRpc

\* The connection to a peer is closed.
peer_disconnected(p) ==
    /\ peer_state[p] # "disconnected"
    /\ peer_state' = [peer_state EXCEPT ![p] = "disconnected"]
    /\ UNCHANGED <<requests, surfaced, rpc_in, rpc_out, pm_calls>>
    /\ NotRpc

NextRpc ==
    \/ \E p \in Peers, n \in AppIds, kind \in SentKinds : send_request(p, n, kind)
    \/ \E n \in AppIds : request_response(n)
    \/ \E n \in AppIds : request_end_of_stream(n)
    \/ \E n \in AppIds, error \in RPCErrors : request_fails(n, error)
    \/ \E p \in Peers : peer_disconnecting(p)
    \/ \E p \in Peers : peer_disconnected(p)

InitRpc ==
    /\ peer_state \in [Peers -> PeerStates]
    /\ requests = [n \in AppIds |-> Unused]
    /\ surfaced = [n \in AppIds |-> <<>>]
    /\ rpc_in = NoMessage
    /\ rpc_out = None
    /\ pm_calls = <<>>

IdleRpc ==
    /\ peer_state = [p \in Peers |-> "connected"]
    /\ requests = [n \in AppIds |-> Unused]
    /\ surfaced = [n \in AppIds |-> <<>>]
    /\ rpc_in = NoMessage
    /\ rpc_out = None
    /\ pm_calls = <<>>

IdleMeta ==
    /\ enr_bits = {}
    /\ local_metadata = MetaData(0, {}, {})
    /\ disk_metadata = local_metadata
    /\ rpc_seq_number = 0
    /\ meta_pc = "idle"
    /\ meta_clone = local_metadata
    /\ meta_call_seq = 0
    /\ meta_call_in = NoEnrSubnetCall

(***************************************************************************)
(* Gossip subscriptions: subscribe, unsubscribe and the calls built on     *)
(* them.                                                                   *)
(***************************************************************************)
\* GossipKind (two of them) and the fork digests and fork names of the model
Kinds == {"BeaconBlock", "Attestation0"}
Digests == {"D1", "D2"}
ForkNames == {"Base", "Altair"}

\* GossipTopic::new(kind, GossipEncoding::default(), fork_digest)
GossipTopic(kind, digest) == [kind |-> kind, fork_digest |-> digest]
Topics == {GossipTopic(k, d) : k \in Kinds, d \in Digests}
NoTopic == GossipTopic("-", "-")

\* fork_core_topics(new_fork, spec): the core kinds of a fork, among Kinds.
\* The beacon block topic is a core topic of every fork; subnet topics are not
\* core topics.
fork_core_topics(fork) == {"BeaconBlock"}

\* gossipsub.subscribe(topic): Ok leaves the topic subscribed, Err changes
\* nothing.
gs_subscribe(gs, t, ok) == IF ok THEN gs \cup {t} ELSE gs
\* gossipsub.unsubscribe(topic): Ok leaves the topic unsubscribed, Err
\* changes nothing.
gs_unsubscribe(gs, t, ok) == IF ok THEN gs \ {t} ELSE gs

\* The two sides the facade keeps: the subscription set of network_globals
\* and the gossipsub behaviour, with the value the last call returned.
Sides(subs, gs, ret) == [subs |-> subs, gs |-> gs, ret |-> ret]

\* Mutant of SubscribeSteps: gossipsub is called before the set is written.
SubscribeStepsSwapped == <<"gossipsub", "insert">>

\* The two effects of subscribe, in the order the code has them:
\* gossipsub_subscriptions.write().insert(topic), then gossipsub.subscribe.
SubscribeSteps == <<"insert", "gossipsub">>

SubscribeStep(name, st, t, ok) ==
    IF name = "insert"
    THEN [st EXCEPT !.subs = @ \cup {t}]
    ELSE [st EXCEPT !.gs = gs_subscribe(@, t, ok), !.ret = ok]

\* Network::subscribe
subscribe(st, t, ok) ==
    SubscribeStep(SubscribeSteps[2], SubscribeStep(SubscribeSteps[1], st, t, ok), t, ok)

\* The two effects of unsubscribe, in the order the code has them:
\* gossipsub_subscriptions.write().remove(&topic), then gossipsub.unsubscribe.
UnsubscribeSteps == <<"remove", "gossipsub">>

\* Mutant of UnsubscribeStep: the topic is only removed from the set by a call
\* that gossipsub accepted.
UnsubscribeStepIfAccepted(name, st, t, ok) ==
    IF name = "remove"
    THEN [st EXCEPT !.subs = IF ok THEN @ \ {t} ELSE @]
    ELSE [st EXCEPT !.gs = gs_unsubscribe(@, t, ok), !.ret = ok /\ t \in st.gs]

UnsubscribeStep(name, st, t, ok) ==
    IF name = "remove"
    THEN [st EXCEPT !.subs = @ \ {t}]
    ELSE [st EXCEPT !.gs = gs_unsubscribe(@, t, ok), !.ret = ok /\ t \in st.gs]

\* Network::unsubscribe
unsubscribe(st, t, ok) ==
    UnsubscribeStep(UnsubscribeSteps[2],
                    UnsubscribeStep(UnsubscribeSteps[1], st, t, ok), t, ok)

\* Network::subscribe_kind
subscribe_kind(st, kind, digest, ok) == subscribe(st, GossipTopic(kind, digest), ok)
\* Network::unsubscribe_kind
unsubscribe_kind(st, kind, digest, ok) == unsubscribe(st, GossipTopic(kind, digest), ok)

\* `for topic in ... { self.subscribe(topic); }`: gossipsub rejects the topics
\* in `fails`.
RECURSIVE subscribe_each(_, _, _)
subscribe_each(st, T, fails) ==
    IF T = {} THEN st
    ELSE LET t == CHOOSE x \in T : TRUE
         IN subscribe_each(subscribe(st, t, t \notin fails), T \ {t}, fails)

RECURSIVE unsubscribe_each(_, _, _)
unsubscribe_each(st, T, fails) ==
    IF T = {} THEN st
    ELSE LET t == CHOOSE x \in T : TRUE
         IN unsubscribe_each(unsubscribe(st, t, t \notin fails), T \ {t}, fails)

\* Mutant of subscribe_new_fork_topics: only the core topics of the new fork
\* are subscribed.
subscribe_new_fork_topics_core_only(st, new_fork, new_fork_digest, fails) ==
    subscribe_each(st, {GossipTopic(k, new_fork_digest) :
                            k \in fork_core_topics(new_fork)}, fails)

\* Mutant of subscribe_new_fork_topics: the core topics of the new fork are
\* left out.
subscribe_new_fork_topics_no_core(st, new_fork, new_fork_digest, fails) ==
    subscribe_each(st, {GossipTopic(t.kind, new_fork_digest) : t \in st.subs}, fails)

\* Network::subscribe_new_fork_topics
subscribe_new_fork_topics(st, new_fork, new_fork_digest, fails) ==
    LET subscriptions == st.subs
        existing == {GossipTopic(t.kind, new_fork_digest) : t \in subscriptions}
        core == {GossipTopic(k, new_fork_digest) : k \in fork_core_topics(new_fork)}
    IN subscribe_each(subscribe_each(st, existing, fails), core, fails)

\* Mutant of unsubscribe_from_fork_topics_except: the filter on the digest is
\* missing.
unsubscribe_from_fork_topics_unfiltered(st, except, fails) ==
    unsubscribe_each(st, st.subs, fails)

\* Network::unsubscribe_from_fork_topics_except
unsubscribe_from_fork_topics_except(st, except, fails) ==
    LET subscriptions == st.subs
    IN unsubscribe_each(st, {t \in subscriptions : t.fork_digest # except}, fails)

Now == Sides(gossipsub_subscriptions, gs_subscribed, FALSE)
Becomes(st) ==
    /\ gossipsub_subscriptions' = st.subs
    /\ gs_subscribed' = st.gs

\* ---- the facade calls as actions (each a whole call)
Subscribe(t, ok) ==
    Becomes(subscribe(Now, t, ok)) /\ UNCHANGED enr_fork_id
Unsubscribe(t, ok) ==
    Becomes(unsubscribe(Now, t, ok)) /\ UNCHANGED enr_fork_id
SubscribeKind(kind, ok) ==
    Becomes(subscribe_kind(Now, kind, enr_fork_id, ok)) /\ UNCHANGED enr_fork_id
UnsubscribeKind(kind, ok) ==
    Becomes(unsubscribe_kind(Now, kind, enr_fork_id, ok)) /\ UNCHANGED enr_fork_id
\* Mutant of SubscribeNewForkTopics: the call also makes the new digest the
\* active one.
SubscribeNewForkTopicsSwitching(new_fork, digest, fails) ==
    Becomes(subscribe_new_fork_topics(Now, new_fork, digest, fails))
    /\ enr_fork_id' = digest

SubscribeNewForkTopics(new_fork, digest, fails) ==
    Becomes(subscribe_new_fork_topics(Now, new_fork, digest, fails))
    /\ UNCHANGED enr_fork_id
UnsubscribeFromForkTopicsExcept(except, fails) ==
    Becomes(unsubscribe_from_fork_topics_except(Now, except, fails))
    /\ UNCHANGED enr_fork_id
\* Network::update_fork_version
UpdateForkVersion(digest) ==
    /\ enr_fork_id' = digest
    /\ UNCHANGED <<gossipsub_subscriptions, gs_subscribed>>

\* the topics a fork call may see rejected
AtDigest(d) == {t \in Topics : t.fork_digest = d}
NotAtDigest(d) == {t \in Topics : t.fork_digest # d}

InitGossip ==
    /\ gossipsub_subscriptions = {}
    /\ gs_subscribed = {}
    /\ enr_fork_id = "D1"

\* ---- history of the last subscribe(t), for the subscribe/unsubscribe law
NoLaw == [phase |-> "none", t |-> NoTopic, S |-> {}]
LawSubscribe(t) ==
    law' = [phase |-> "subscribed", t |-> t, S |-> gossipsub_subscriptions]
LawUnsubscribe(t) ==
    law' = IF law.phase = "subscribed" /\ law.t = t
           THEN [law EXCEPT !.phase = "unsubscribed"]
           ELSE NoLaw
LawOther == law' = NoLaw

\* ---- history of the last subscribe_new_fork_topics(F, D): one topic t that
\* was subscribed before the call, D, and whether an unsubscribing call other
\* than unsubscribe_from_fork_topics_except(D) was made since.  The watch ends
\* with unsubscribe_from_fork_topics_except(D).
NoWatch == [active |-> FALSE, t |-> NoTopic, D |-> "-", unsub |-> FALSE]
WatchFork(digest) ==
    watch' \in {watch} \cup
               {[active |-> TRUE, t |-> t, D |-> digest, unsub |-> FALSE] :
                    t \in gossipsub_subscriptions}
WatchUnsubscribe ==
    watch' = IF watch.active THEN [watch EXCEPT !.unsub = TRUE] ELSE watch
WatchExcept(except) ==
    watch' = IF watch.active /\ except = watch.D THEN NoWatch
             ELSE IF watch.active THEN [watch EXCEPT !.unsub = TRUE]
             ELSE watch

\* ---- history of the last fork call: its name and arguments and the
\* subscription set it was applied to
NoCall == [op |-> "-", F |-> "-", D |-> "-", S |-> {}]
Called(op, F, D) ==
    call' = [op |-> op, F |-> F, D |-> D, S |-> gossipsub_subscriptions]
CallOther == call' = NoCall

InitHist == law = NoLaw /\ watch = NoWatch /\ call = NoCall
InitSteps == sub_pc = "idle" /\ sub_topic = NoTopic

\* what a step of each gossip specification leaves alone
FrameGossip == UNCHANGED <<histVars, stepVars>> /\ NotGossip
FrameLaw == UNCHANGED <<watch, call, stepVars>> /\ NotGossip
FrameFork == UNCHANGED <<law, call, stepVars>> /\ NotGossip
FrameCall == UNCHANGED <<law, watch, stepVars>> /\ NotGossip
FrameSteps == UNCHANGED <<enr_fork_id, histVars>> /\ NotGossip

NextGossip ==
    \/ \E t \in Topics, ok \in BOOLEAN : Subscribe(t, ok) /\ FrameGossip
    \/ \E t \in Topics, ok \in BOOLEAN : Unsubscribe(t, ok) /\ FrameGossip
    \/ \E k \in Kinds, ok \in BOOLEAN : SubscribeKind(k, ok) /\ FrameGossip
    \/ \E k \in Kinds, ok \in BOOLEAN : UnsubscribeKind(k, ok) /\ FrameGossip
    \/ \E f \in ForkNames, d \in Digests : \E fails \in SUBSET AtDigest(d) :
          SubscribeNewForkTopics(f, d, fails) /\ FrameGossip
    \/ \E d \in Digests : \E fails \in SUBSET NotAtDigest(d) :
          UnsubscribeFromForkTopicsExcept(d, fails) /\ FrameGossip
    \/ \E d \in Digests : UpdateForkVersion(d) /\ FrameGossip

NextLaw ==
    \/ \E t \in Topics, ok \in BOOLEAN :
          Subscribe(t, ok) /\ LawSubscribe(t) /\ FrameLaw
    \/ \E t \in Topics, ok \in BOOLEAN :
          Unsubscribe(t, ok) /\ LawUnsubscribe(t) /\ FrameLaw
    \/ \E k \in Kinds, ok \in BOOLEAN :
          SubscribeKind(k, ok) /\ LawSubscribe(GossipTopic(k, enr_fork_id)) /\ FrameLaw
    \/ \E k \in Kinds, ok \in BOOLEAN :
          UnsubscribeKind(k, ok) /\ LawUnsubscribe(GossipTopic(k, enr_fork_id))
          /\ FrameLaw
    \/ \E f \in ForkNames, d \in Digests : \E fails \in SUBSET AtDigest(d) :
          SubscribeNewForkTopics(f, d, fails) /\ LawOther /\ FrameLaw
    \/ \E d \in Digests : \E fails \in SUBSET NotAtDigest(d) :
          UnsubscribeFromForkTopicsExcept(d, fails) /\ LawOther /\ FrameLaw
    \/ \E d \in Digests : UpdateForkVersion(d) /\ LawOther /\ FrameLaw

NextFork ==
    \/ \E t \in Topics, ok \in BOOLEAN :
          Subscribe(t, ok) /\ UNCHANGED watch /\ FrameFork
    \/ \E t \in Topics, ok \in BOOLEAN :
          Unsubscribe(t, ok) /\ WatchUnsubscribe /\ FrameFork
    \/ \E k \in Kinds, ok \in BOOLEAN :
          SubscribeKind(k, ok) /\ UNCHANGED watch /\ FrameFork
    \/ \E k \in Kinds, ok \in BOOLEAN :
          UnsubscribeKind(k, ok) /\ WatchUnsubscribe /\ FrameFork
    \/ \E f \in ForkNames, d \in Digests : \E fails \in SUBSET AtDigest(d) :
          SubscribeNewForkTopics(f, d, fails) /\ WatchFork(d) /\ FrameFork
    \/ \E d \in Digests : \E fails \in SUBSET NotAtDigest(d) :
          UnsubscribeFromForkTopicsExcept(d, fails) /\ WatchExcept(d) /\ FrameFork
    \/ \E d \in Digests : UpdateForkVersion(d) /\ UNCHANGED watch /\ FrameFork

NextCall ==
    \/ \E t \in Topics, ok \in BOOLEAN :
          Subscribe(t, ok) /\ CallOther /\ FrameCall
    \/ \E t \in Topics, ok \in BOOLEAN :
          Unsubscribe(t, ok) /\ CallOther /\ FrameCall
    \/ \E f \in ForkNames, d \in Digests : \E fails \in SUBSET AtDigest(d) :
          SubscribeNewForkTopics(f, d, fails)
          /\ Called("subscribe_new_fork_topics", f, d) /\ FrameCall
    \/ \E d \in Digests : \E fails \in SUBSET NotAtDigest(d) :
          UnsubscribeFromForkTopicsExcept(d, fails)
          /\ Called("unsubscribe_from_fork_topics_except", "-", d) /\ FrameCall

\* ---- subscribe and unsubscribe split at the call into gossipsub: the first
\* effect, then the second and the return.
BeginSubscribe(t, ok) ==
    /\ sub_pc = "idle"
    /\ Becomes(SubscribeStep(SubscribeSteps[1], Now, t, ok))
    /\ sub_pc' = "subscribe"
    /\ sub_topic' = t
    /\ FrameSteps
EndSubscribe(ok) ==
    /\ sub_pc = "subscribe"
    /\ Becomes(SubscribeStep(SubscribeSteps[2], Now, sub_topic, ok))
    /\ sub_pc' = "idle"
    /\ sub_topic' = NoTopic
    /\ FrameSteps
BeginUnsubscribe(t, ok) ==
    /\ sub_pc = "idle"
    /\ Becomes(UnsubscribeStep(UnsubscribeSteps[1], Now, t, ok))
    /\ sub_pc' = "unsubscribe"
    /\ sub_topic' = t
    /\ FrameSteps
EndUnsubscribe(ok) ==
    /\ sub_pc = "unsubscribe"
    /\ Becomes(UnsubscribeStep(UnsubscribeSteps[2], Now, sub_topic, ok))
    /\ sub_pc' = "idle"
    /\ sub_topic' = NoTopic
    /\ FrameSteps

NextSteps ==
    \/ \E t \in Topics, ok \in BOOLEAN : BeginSubscribe(t, ok)
    \/ \E ok \in BOOLEAN : EndSubscribe(ok)
    \/ \E t \in Topics, ok \in BOOLEAN : BeginUnsubscribe(t, ok)
    \/ \E ok \in BOOLEAN : EndUnsubscribe(ok)

(***************************************************************************)
(* Publishing and the gossip retry cache: publish, the Subscribed event,   *)
(* the expirations drained by poll_network.                                *)
(***************************************************************************)
\* the kinds published in the model: two of Kinds and a sync committee message
CacheKinds == Kinds \cup {"SyncCommitteeMessage0"}
CacheTopics == {GossipTopic(k, d) : k \in CacheKinds, d \in Digests}
Payloads == {"m1", "m2"}
\* a topic string GossipTopic::decode rejects
UndecodableTopic == GossipTopic("junk", "-")

\* GossipCache::builder() of Network::new: the kinds given a timeout.  The
\* timeouts of SignedContributionAndProof and SyncCommitteeMessage are
\* commented out.
TimeoutKinds == {"BeaconBlock", "Attestation0"}

\* Mutant of HasTimeout: every kind has a timeout.
HasTimeoutAlways(kind) == TRUE

HasTimeout(kind) == kind \in TimeoutKinds

\* GossipCache::insert: enqueues only if the kind of the topic has a timeout.
cache_insert(cache, topic, data) ==
    IF HasTimeout(topic.kind) THEN [cache EXCEPT ![topic] = Append(@, data)]
    ELSE cache

\* GossipCache::retrieve: the payloads of the topic in insertion order, which
\* leave the cache.
cache_retrieve(cache, topic) ==
    [msgs |-> cache[topic], cache |-> [cache EXCEPT ![topic] = <<>>]]

EmptyCache == [t \in CacheTopics |-> <<>>]
\* number of payloads in the cache
RECURSIVE CacheCountOf(_, _)
CacheCountOf(cache, T) ==
    IF T = {} THEN 0
    ELSE LET t == CHOOSE x \in T : TRUE
         IN Len(cache[t]) + CacheCountOf(cache, T \ {t})
CacheCount(cache) == CacheCountOf(cache, CacheTopics)

\* PubsubMessage and PubsubMessage::topics(encoding, fork_digest)
PubsubMessage(kind, data) == [kind |-> kind, data |-> data]
\* the messages of the model: two beacon blocks, one message of each other kind
Messages ==
    {PubsubMessage("BeaconBlock", d) : d \in Payloads}
        \cup {PubsubMessage(k, "m1") : k \in CacheKinds \ {"BeaconBlock"}}
\* the lists given to publish: one message, or two messages with payload m1
MessageLists ==
    {<<m>> : m \in Messages}
        \cup {<<a, b>> : a \in {m \in Messages : m.data = "m1"},
                         b \in {m \in Messages : m.data = "m1"}}
message_topics(message, fork_digest) == <<GossipTopic(message.kind, fork_digest)>>

\* what gossipsub.publish answers: Ok or a PublishError
PublishResults == {"Ok", "Duplicate", "InsufficientPeers", "MessageTooLarge"}

\* the cache and the gossipsub.publish calls made so far
Pub(cache, calls) == [cache |-> cache, calls |-> calls]
PublishCall(topic, data, result) == [topic |-> topic, data |-> data, result |-> result]

\* Mutant of publish_topic: a failed publish is never cached.
publish_topic_no_retry(st, topic, data, result) ==
    Pub(st.cache, Append(st.calls, PublishCall(topic, data, result)))

\* Mutant of publish_topic: the payload is cached after every error.
publish_topic_retry_any(st, topic, data, result) ==
    Pub(IF result # "Ok" THEN cache_insert(st.cache, topic, data) ELSE st.cache,
        Append(st.calls, PublishCall(topic, data, result)))

\* publish, the body of the loop over the topics of a message: gossipsub is
\* called and the payload is cached when it answers InsufficientPeers.
publish_topic(st, topic, data, result) ==
    Pub(IF result = "InsufficientPeers" THEN cache_insert(st.cache, topic, data)
        ELSE st.cache,
        Append(st.calls, PublishCall(topic, data, result)))

\* Network::publish: `results[i]` is the answer of gossipsub for message i
RECURSIVE publish(_, _, _, _)
publish(st, messages, fork_digest, results) ==
    IF messages = <<>> THEN st
    ELSE LET message == Head(messages)
             topic == message_topics(message, fork_digest)[1]
         IN publish(publish_topic(st, topic, message.data, Head(results)),
                    Tail(messages), fork_digest, Tail(results))

\* publish, the body of `if let Err(e) = ..publish(..)`: the failed-publish
\* gauge of the topic kind is incremented, whatever the error
publish_failures(calls) ==
    Cardinality({i \in 1..Len(calls) : calls[i].result # "Ok"})

\* Mutant of republish: the payloads go out newest first.
RECURSIVE republish_reversed(_, _, _, _)
republish_reversed(calls, topic, msgs, results) ==
    IF msgs = <<>> THEN calls
    ELSE republish_reversed(
             Append(calls, PublishCall(topic, msgs[Len(msgs)], Head(results))),
             topic, SubSeq(msgs, 1, Len(msgs) - 1), Tail(results))

\* inject_gs_event, Subscribed: `for data in msgs { gossipsub.publish(..) }`
RECURSIVE republish(_, _, _, _)
republish(calls, topic, msgs, results) ==
    IF msgs = <<>> THEN calls
    ELSE republish(Append(calls, PublishCall(topic, Head(msgs), Head(results))),
                   topic, Tail(msgs), Tail(results))

\* Mutant of inject_gs_subscribed: a payload whose retry found no peers goes
\* back into the cache.
inject_gs_subscribed_recached(cache, topic, results) ==
    IF topic \notin CacheTopics THEN Pub(cache, <<>>)
    ELSE LET r == cache_retrieve(cache, topic)
             calls == republish(<<>>, topic, r.msgs, results)
             failed == SelectSeq(calls, LAMBDA c : c.result = "InsufficientPeers")
         IN Pub([r.cache EXCEPT ![topic] = [i \in 1..Len(failed) |-> failed[i].data]],
                calls)

\* inject_gs_event, gossipsub::Event::Subscribed { peer_id, topic }: the
\* topic string decodes to a GossipTopic or not (UndecodableTopic)
inject_gs_subscribed(cache, topic, results) ==
    IF topic \notin CacheTopics THEN Pub(cache, <<>>)
    ELSE LET r == cache_retrieve(cache, topic)
         IN Pub(r.cache, republish(<<>>, topic, r.msgs, results))

\* history: the handler, its topic, and from the cache before it the number
\* of payloads and the payloads of the topic
CacheOp(op, topic) ==
    [op |-> op, topic |-> topic, count |-> CacheCount(gossip_cache),
     msgs |-> IF topic \in CacheTopics THEN gossip_cache[topic] ELSE <<>>,
     cache |-> gossip_cache]
NoCacheOp ==
    [op |-> "-", topic |-> NoTopic, count |-> 0, msgs |-> <<>>, cache |-> EmptyCache]

ResultSeqs(n) == [1..n -> PublishResults]

\* Network::publish as an action
Publish(messages, results) ==
    /\ Len(results) = Len(messages)
    /\ \A t \in CacheTopics : Len(gossip_cache[t]) + Len(messages) <= MaxCache
    /\ LET st == publish(Pub(gossip_cache, <<>>), messages, enr_fork_id, results)
       IN /\ gossip_cache' = st.cache
          /\ gs_publishes' = st.calls
          /\ gs_failed' = publish_failures(st.calls)
    /\ gs_out' = None
    /\ cache_op' = CacheOp("publish", NoTopic)
    /\ UNCHANGED subVars
    /\ NotCache

\* poll_network -> inject_gs_event(Subscribed) as an action
GsSubscribed(topic, results) ==
    /\ LET st == inject_gs_subscribed(gossip_cache, topic, results)
       IN /\ gossip_cache' = st.cache
          /\ gs_publishes' = st.calls
    /\ gs_out' = None
    /\ gs_failed' = 0
    /\ cache_op' = CacheOp("subscribed", topic)
    /\ UNCHANGED subVars
    /\ NotCache

\* poll_network: gossip_cache.poll_next yields Ok(expired_topic); the oldest
\* payload of the topic has left the cache
CacheExpired(topic) ==
    /\ gossip_cache[topic] # <<>>
    /\ gossip_cache' = [gossip_cache EXCEPT ![topic] = Tail(@)]
    /\ gs_publishes' = <<>>
    /\ gs_out' = None
    /\ gs_failed' = 0
    /\ cache_op' = CacheOp("expired", topic)
    /\ UNCHANGED subVars
    /\ NotCache

\* subscribe and unsubscribe next to the cache
CacheSubscribe(t, ok) ==
    /\ Subscribe(t, ok)
    /\ cache_op' = CacheOp("subscribe", t)
    /\ gs_publishes' = <<>>
    /\ gs_out' = None
    /\ gs_failed' = 0
    /\ UNCHANGED gossip_cache
    /\ NotCache
CacheUnsubscribe(t, ok) ==
    /\ Unsubscribe(t, ok)
    /\ cache_op' = CacheOp("unsubscribe", t)
    /\ gs_publishes' = <<>>
    /\ gs_out' = None
    /\ gs_failed' = 0
    /\ UNCHANGED gossip_cache
    /\ NotCache

InitCache ==
    /\ gossip_cache = EmptyCache
    /\ gs_publishes = <<>>
    /\ gs_out = None
    /\ gs_failed = 0
    /\ cache_op = NoCacheOp

NextCache ==
    \/ \E messages \in MessageLists : \E results \in ResultSeqs(Len(messages)) :
          Publish(messages, results)
    \/ \E topic \in CacheTopics \cup {UndecodableTopic} :
          \E results \in ResultSeqs(IF topic \in CacheTopics
                                    THEN Len(gossip_cache[topic]) ELSE 0) :
             GsSubscribed(topic, results)
    \/ \E topic \in CacheTopics : CacheExpired(topic)
    \/ \E ok \in BOOLEAN : CacheSubscribe(GossipTopic("BeaconBlock", enr_fork_id), ok)
    \/ \E ok \in BOOLEAN : CacheUnsubscribe(GossipTopic("BeaconBlock", enr_fork_id), ok)

(***************************************************************************)
(* poll_network: the loop over the swarm events.                           *)
(***************************************************************************)
\* SwarmEvent, with the payload of the variants the model tells apart
SwarmEvent(kind, ev, peer, id, body) ==
    [kind |-> kind, ev |-> ev, peer |-> peer, id |-> id, body |-> body]

\* gossipsub::Event::Message { propagation_source, message_id, message }:
\* body is <<topic, data>>, and PubsubMessage::decode fails on "garbage"
GossipMessages ==
    { SwarmEvent("Gossipsub", "Message", "p2", Application(7), <<"BeaconBlock", data>>) :
          data \in {"block", "garbage"} }

\* Mutant of inject_gs_message: the message is surfaced without decoding.
inject_gs_message_undecoded(e) ==
    Handled(NetworkEvent("PubsubMessage", e.peer, e.id.id, e.body), <<>>)

\* inject_gs_event, gossipsub::Event::Message
inject_gs_message(e) ==
    IF e.body[2] = "garbage"
    THEN Handled(None, << <<"report_message_validation_result", e.id.id, e.peer,
                            "Reject">> >>)
    ELSE Handled(NetworkEvent("PubsubMessage", e.peer, e.id.id, e.body), <<>>)

\* gossipsub::Event::SlowPeer { peer_id, failed_messages }: body is
\* <<failed_messages.total_timeout(), failed_messages.total_queue_full()>>
SlowPeerEvents ==
    { SwarmEvent("Gossipsub", "SlowPeer", "p1", Internal, <<t, q>>) :
          t \in {0, 10, 11}, q \in {0, 10, 11} }

\* Mutant of inject_gs_slow_peer: the two totals are punished separately.
inject_gs_slow_peer_both(e) ==
    Handled(None,
            (IF e.body[1] > 10
             THEN << <<"pm_report_peer", e.peer, "HighToleranceError",
                       "publish_timeout_penalty">> >>
             ELSE <<>>)
            \o (IF e.body[2] > 10
                THEN << <<"pm_report_peer", e.peer, "HighToleranceError",
                          "queue_full_penalty">> >>
                ELSE <<>>))

\* inject_gs_event, gossipsub::Event::SlowPeer
inject_gs_slow_peer(e) ==
    Handled(None,
            IF e.body[1] > 10
            THEN << <<"pm_report_peer", e.peer, "HighToleranceError",
                      "publish_timeout_penalty">> >>
            ELSE IF e.body[2] > 10
            THEN << <<"pm_report_peer", e.peer, "HighToleranceError",
                      "queue_full_penalty">> >>
            ELSE <<>>)

MAX_IDENTIFY_ADDRESSES == 10

\* identify::Event: Received with info.listen_addrs in body, and Sent
IdentifyAddrs ==
    <<"a1", "a2", "a3", "a4", "a5", "a6", "a7", "a8", "a9", "a10", "a11", "a12">>
IdentifyEvents ==
    { SwarmEvent("Identify", "Received", "p1", Internal, SubSeq(IdentifyAddrs, 1, n)) :
          n \in {0, 1, 10, 11, 12} }
        \cup { SwarmEvent("Identify", "Sent", "p1", Internal, <<>>) }

\* Mutant of inject_identify_event: the list is passed as received.
inject_identify_event_whole(e) ==
    Handled(None, IF e.ev = "Received" THEN << <<"pm_identify", e.peer>> \o e.body >>
                  ELSE <<>>)

\* Network::inject_identify_event
inject_identify_event(e) ==
    Handled(None,
            IF e.ev = "Received"
            THEN LET listen_addrs ==
                         IF Len(e.body) > MAX_IDENTIFY_ADDRESSES
                         THEN SubSeq(e.body, 1, MAX_IDENTIFY_ADDRESSES)
                         ELSE e.body
                 IN << <<"pm_identify", e.peer>> \o listen_addrs >>
            ELSE <<>>)

\* the swarm events of the model: two without and the others with a handler
\* of their own; half of them map to a public event
SwarmEvents ==
    { SwarmEvent("ConnectionEstablished", "-", "p1", Internal, <<>>),
      SwarmEvent("NewListenAddr", "addr", "-", Internal, <<>>),
      SwarmEvent("PeerManager", "PeerDisconnected", "p1", Internal, <<>>),
      SwarmEvent("PeerManager", "Ping", "p1", Internal, <<>>),
      SwarmEvent("Eth2Rpc", "Status", "p1", Application(1), <<>>),
      SwarmEvent("Eth2Rpc", "Pong", "p1", Internal, <<>>) }
        \cup GossipMessages

\* Mutant of inject_pm_calls: a Banned event is not passed to discovery.
inject_pm_calls_no_ban(pe) ==
    IF pe.ev = "DisconnectPeer"
    THEN << <<"rpc_shutdown", pe.peer, "Internal", "Goodbye">> >>
    ELSE <<>>

\* Network::inject_pm_event: the calls made on discovery and on the RPC
\* behaviour (self.ping and self.send_meta_data_request included)
inject_pm_calls(pe) ==
    CASE pe.ev = "Banned" -> << <<"ban_peer", pe.peer>> \o pe.body >>
      [] pe.ev = "UnBanned" -> << <<"unban_peer", pe.peer>> \o pe.body >>
      [] pe.ev = "DiscoverPeers" -> << <<"discover_peers">> >>
      [] pe.ev = "DiscoverSubnetPeers" -> << <<"discover_subnet_peers">> >>
      [] pe.ev = "Ping" -> << <<"rpc_ping", pe.peer, "Internal">> >>
      [] pe.ev = "MetaData" -> << <<"rpc_send_request", pe.peer, "Internal", "MetaData">> >>
      [] pe.ev = "DisconnectPeer" ->
           << <<"rpc_shutdown", pe.peer, "Internal", "Goodbye">> >>
      [] OTHER -> <<>>

\* Mutant of inject_pm_event: every peer manager event is surfaced.
inject_pm_event_surfaced(pe) ==
    NetworkEvent(IF pe.ev = "Status" THEN "StatusPeer" ELSE pe.ev, pe.peer, 0, <<>>)

\* Network::inject_pm_event: the event returned
inject_pm_event(pe) ==
    IF pe.ev \in {"PeerConnectedIncoming", "PeerConnectedOutgoing",
                  "PeerDisconnected", "Status"}
    THEN NetworkEvent(IF pe.ev = "Status" THEN "StatusPeer" ELSE pe.ev,
                      pe.peer, 0, <<>>)
    ELSE None

\* poll_network, `let maybe_event = match swarm_event { .. }`
swarm_dispatch(e, md) ==
    CASE e.kind = "Eth2Rpc" ->
           inject_rpc_event(RPCMessage(e.peer, pm_is_connected(e.peer),
                                       "Response", e.id, e.ev, 1, "-"),
                            md).out
      [] e.kind = "PeerManager" -> inject_pm_event(e)
      [] e.kind = "Gossipsub" /\ e.ev = "Message" -> inject_gs_message(e).out
      [] e.kind = "NewListenAddr" -> NetworkEvent("NewListenAddr", "-", 0, <<e.ev>>)
      [] OTHER -> None

\* poll_network, the same match: the calls the handlers of the swarm events
\* make, in the order of the events
RECURSIVE swarm_calls(_, _)
swarm_calls(events, md) ==
    IF events = <<>> THEN <<>>
    ELSE LET e == Head(events)
         IN (CASE e.kind = "Eth2Rpc" ->
                    inject_rpc_event(RPCMessage(e.peer, pm_is_connected(e.peer),
                                                "Response", e.id, e.ev, 1, "-"),
                                     md).calls
               [] e.kind = "PeerManager" -> inject_pm_calls(e)
               [] e.kind = "Gossipsub" /\ e.ev = "Message" -> inject_gs_message(e).calls
               [] e.kind = "Gossipsub" /\ e.ev = "SlowPeer" -> inject_gs_slow_peer(e).calls
               [] e.kind = "Identify" -> inject_identify_event(e).calls
               [] OTHER -> <<>>)
            \o swarm_calls(Tail(events), md)

\* what the two loops after the swarm loop leave and the calls they make
Timers(ticks, ready, calls) == [ticks |-> ticks, ready |-> ready, calls |-> calls]

\* Mutant of poll_timers: the gossip cache stream is not polled.
poll_timers_no_cache(ticks, ready) ==
    Timers(0, ready, [i \in 1..ticks |-> <<"pm_update_gossipsub_scores">>])

\* poll_network once the swarm is pending: for every elapsed tick
\* peer_manager.update_gossipsub_scores(&gossipsub), then for every expired
\* topic the late-publish counter of its kind
poll_timers(ticks, ready) ==
    Timers(0, <<>>,
           [i \in 1..ticks |-> <<"pm_update_gossipsub_scores">>]
               \o [i \in 1..Len(ready) |-> <<"inc_expired_late_publish", ready[i].kind>>])

\* Mutant of poll_after_swarm: the timers are serviced in every poll.
poll_after_swarm_always(ret, ticks, ready) == poll_timers(ticks, ready)

\* poll_network after the swarm loop: `if let Some(ev) = maybe_event { return
\* Poll::Ready(ev); }` comes before the two timer loops
poll_after_swarm(ret, ticks, ready) ==
    IF ret = "Pending" THEN poll_timers(ticks, ready)
    ELSE Timers(ticks, ready, <<>>)

\* Discovery::ban_peer and unban_peer over the calls of a poll
RECURSIVE discovery_bans(_, _)
discovery_bans(banned, calls) ==
    IF calls = <<>> THEN banned
    ELSE discovery_bans(CASE Head(calls)[1] = "ban_peer" -> banned \cup {Head(calls)[2]}
                          [] Head(calls)[1] = "unban_peer" -> banned \ {Head(calls)[2]}
                          [] OTHER -> banned,
                        Tail(calls))

Polled(ret, queue, dispatched) ==
    [ret |-> ret, queue |-> queue, dispatched |-> dispatched]
Pending == NetworkEvent("Pending", "-", 0, <<>>)

\* Mutant of poll_swarm: the loop goes on after a public event and the last
\* one is returned.
RECURSIVE poll_swarm_drain(_, _, _, _)
poll_swarm_drain(queue, dispatched, md, last) ==
    IF queue = <<>> THEN Polled(last, queue, dispatched)
    ELSE LET maybe_event == swarm_dispatch(Head(queue), md)
         IN poll_swarm_drain(Tail(queue), Append(dispatched, Head(queue)), md,
                             IF maybe_event # None THEN maybe_event ELSE last)

\* poll_network, the loop `while let Poll::Ready(Some(swarm_event)) =
\* self.swarm.poll_next_unpin(cx)`: Ready(ev) at the first event that maps to
\* a public event, Pending when the swarm has none left.
RECURSIVE poll_swarm(_, _, _, _)
poll_swarm(queue, dispatched, md, last) ==
    IF queue = <<>> THEN Polled(last, queue, dispatched)
    ELSE LET maybe_event == swarm_dispatch(Head(queue), md)
         IN IF maybe_event # None
            THEN Polled(maybe_event, Tail(queue), Append(dispatched, Head(queue)))
            ELSE poll_swarm(Tail(queue), Append(dispatched, Head(queue)), md, last)

\* the swarm has another event ready
SwarmArrive(e) ==
    /\ Len(poll_arrived) < MaxEvents
    /\ swarm_queue' = Append(swarm_queue, e)
    /\ poll_arrived' = Append(poll_arrived, e)
    /\ UNCHANGED <<poll_ret, poll_dispatched, poll_emitted, poll_taken, poll_calls, score_ticks,
                   cache_ready, disc_banned, closing, fatal>>
    /\ NotPoll

\* the interval update_gossipsub_scores has one more elapsed tick
Tick ==
    /\ score_ticks < MaxTicks
    /\ score_ticks' = score_ticks + 1
    /\ UNCHANGED <<swarm_queue, poll_ret, poll_arrived, poll_dispatched, poll_emitted,
                   poll_taken, poll_calls, cache_ready, disc_banned, closing, fatal>>
    /\ NotPoll

\* the timeout of the oldest payload of a topic elapsed: the payload is no
\* longer retrievable and the stream of the cache has Ok(topic) ready
CacheTimeout(topic) ==
    /\ gossip_cache[topic] # <<>>
    /\ gossip_cache' = [gossip_cache EXCEPT ![topic] = Tail(@)]
    /\ cache_ready' = Append(cache_ready, topic)
    /\ UNCHANGED <<swarm_queue, poll_ret, poll_arrived, poll_dispatched, poll_emitted,
                   poll_taken, poll_calls, score_ticks, disc_banned, closing, fatal>>
    /\ UNCHANGED <<gs_publishes, gs_out, gs_failed, cache_op>>
    /\ UNCHANGED <<metaVars, rpcVars, subVars, histVars, stepVars, discVars, startVars, scoreVars, builderVars>>

\* Network::report_peer(p, Fatal, ..) on a connected peer: the peer manager
\* starts to disconnect the peer, to ban it afterwards, and emits
\* DisconnectPeer
ReportPeer(p) ==
    /\ peer_state[p] = "connected"
    /\ peer_state' = [peer_state EXCEPT ![p] = "disconnecting"]
    /\ fatal' = fatal \cup {p}
    /\ LET e == SwarmEvent("PeerManager", "DisconnectPeer", p, Internal, <<>>)
       IN /\ swarm_queue' = Append(swarm_queue, e)
          /\ poll_arrived' = Append(poll_arrived, e)
    /\ UNCHANGED <<poll_ret, poll_dispatched, poll_emitted, poll_taken, poll_calls, score_ticks,
                   cache_ready, disc_banned, closing>>
    /\ UNCHANGED <<requests, surfaced, rpc_in, rpc_out, pm_calls>>
    /\ UNCHANGED <<metaVars, subVars, histVars, stepVars, cacheVars, discVars, startVars, scoreVars, builderVars>>

\* the connection to a peer that was sent the Goodbye is closed: the peer
\* manager emits PeerDisconnected and, for a peer reported Fatal, Banned
ConnectionClosed(p) ==
    /\ p \in closing
    /\ peer_state[p] = "disconnecting"
    /\ peer_state' = [peer_state EXCEPT ![p] = "disconnected"]
    /\ closing' = closing \ {p}
    /\ LET es == << SwarmEvent("PeerManager", "PeerDisconnected", p, Internal, <<>>) >>
                  \o IF p \in fatal
                     THEN << SwarmEvent("PeerManager", "Banned", p, Internal, <<"ip1">>) >>
                     ELSE <<>>
       IN /\ swarm_queue' = swarm_queue \o es
          /\ poll_arrived' = poll_arrived \o es
    /\ UNCHANGED <<poll_ret, poll_dispatched, poll_emitted, poll_taken, poll_calls, score_ticks,
                   cache_ready, disc_banned, fatal>>
    /\ UNCHANGED <<requests, surfaced, rpc_in, rpc_out, pm_calls>>
    /\ UNCHANGED <<metaVars, subVars, histVars, stepVars, cacheVars, discVars, startVars, scoreVars, builderVars>>

\* Network::poll_network
PollNetwork ==
    /\ LET r == poll_swarm(swarm_queue, poll_dispatched, local_metadata, Pending)
           t == poll_after_swarm(IF r.ret = Pending THEN "Pending" ELSE "Ready",
                                 score_ticks, cache_ready)
           calls == swarm_calls(SubSeq(r.dispatched, Len(poll_dispatched) + 1,
                                       Len(r.dispatched)), local_metadata)
                        \o t.calls
       IN /\ swarm_queue' = r.queue
          /\ poll_dispatched' = r.dispatched
          /\ poll_ret' = r.ret
          /\ poll_emitted' = IF r.ret = Pending THEN poll_emitted
                             ELSE Append(poll_emitted, r.ret)
          /\ poll_taken' = Len(r.dispatched) - Len(poll_dispatched)
          /\ poll_calls' = calls
          /\ score_ticks' = t.ticks
          /\ cache_ready' = t.ready
          /\ disc_banned' = discovery_bans(disc_banned, calls)
          /\ closing' = closing \cup {p \in Peers :
                             \E i \in 1..Len(calls) :
                                 calls[i][1] = "rpc_shutdown" /\ calls[i][2] = p}
    /\ UNCHANGED <<poll_arrived, fatal>>
    /\ NotPoll

InitPoll ==
    /\ swarm_queue = <<>>
    /\ poll_ret = Pending
    /\ poll_arrived = <<>>
    /\ poll_dispatched = <<>>
    /\ poll_emitted = <<>>
    /\ poll_taken = 0
    /\ poll_calls = <<>>
    /\ score_ticks = 0
    /\ cache_ready = <<>>
    /\ disc_banned = {}
    /\ closing = {}
    /\ fatal = {}

NextPoll ==
    \/ \E e \in SwarmEvents : SwarmArrive(e)
    \/ PollNetwork

\* the swarm events next to the timers: one without and one with a public
\* event
TimerEvents ==
    { SwarmEvent("ConnectionEstablished", "-", "p1", Internal, <<>>),
      SwarmEvent("NewListenAddr", "addr", "-", Internal, <<>>) }

NextTimers ==
    \/ \E e \in TimerEvents : SwarmArrive(e)
    \/ Tick
    \/ \E topic \in CacheTopics : CacheTimeout(topic)
    \/ PollNetwork

\* PeerManagerEvent: every variant
PmEvents ==
    { SwarmEvent("PeerManager", ev, "p1", Internal, <<>>) :
          ev \in {"PeerConnectedIncoming", "PeerConnectedOutgoing", "PeerDisconnected",
                  "Status", "DiscoverPeers", "DiscoverSubnetPeers", "Ping", "MetaData",
                  "DisconnectPeer"} }
        \cup { SwarmEvent("PeerManager", ev, "p1", Internal, <<"ip1", "ip2">>) :
                  ev \in {"Banned", "UnBanned"} }

NextPm ==
    \/ \E e \in PmEvents : SwarmArrive(e)
    \/ PollNetwork

\* the identify and slow-peer events, next to one public event
NextBehaviours ==
    \/ \E e \in IdentifyEvents : SwarmArrive(e)
    \/ \E e \in SlowPeerEvents : SwarmArrive(e)
    \/ SwarmArrive(SwarmEvent("NewListenAddr", "addr", "-", Internal, <<>>))
    \/ PollNetwork

\* the peer manager events next to a Fatal report
BanEvents ==
    { SwarmEvent("PeerManager", ev, "p2", Internal, <<>>) : ev \in {"Status", "Ping"} }

NextBan ==
    \/ \E e \in BanEvents : SwarmArrive(e)
    \/ \E p \in Peers : ReportPeer(p)
    \/ \E p \in Peers : ConnectionClosed(p)
    \/ PollNetwork

(***************************************************************************)
(* Subnet discovery: discover_subnet_peers and dial_cached_enrs_in_subnet. *)
(***************************************************************************)
TARGET_SUBNET_PEERS == 3

DiscSubnets == {<<"Attestation", 0>>, <<"SyncCommittee", 0>>}
\* an ENR of the discovery cache and the subnets subnet_predicate accepts it for
Enr(id, subnets) == [id |-> id, subnets |-> subnets]
EnrCaches ==
    {a \cup b : a \in {{}} \cup {{Enr("e1", s)} : s \in SUBSET DiscSubnets \ {{}}},
                b \in {{}} \cup {{Enr("e2", s)} : s \in SUBSET DiscSubnets \ {{}}}}
\* SubnetDiscovery { subnet, min_ttl }
SubnetDiscovery(subnet, min_ttl) == [subnet |-> subnet, min_ttl |-> min_ttl]
SubnetDiscoveries ==
    {SubnetDiscovery(s, ttl) : s \in DiscSubnets, ttl \in {"None", "Some"}}
DiscoveryLists ==
    {<<>>} \cup {<<a>> : a \in SubnetDiscoveries}
           \cup {<<a, b>> : a \in SubnetDiscoveries, b \in SubnetDiscoveries}

\* the discovery cache and what a call has done so far: per surviving entry
\* the ENRs handed to peer_manager.dial_peer, the subnets whose peers had
\* their min_ttl extended, the sync subnets given to add_sync_subnet, the
\* entries kept by the filter, the DHT queries
Disc(cache, dials, extended, sync, filtered, queries) ==
    [cache |-> cache, dials |-> dials, extended |-> extended, sync |-> sync,
     filtered |-> filtered, queries |-> queries]

\* Mutant of enough_peers: the target itself is not enough.
enough_peers_above(peers_on_subnet) == peers_on_subnet > TARGET_SUBNET_PEERS

\* `peers_on_subnet >= TARGET_SUBNET_PEERS`
enough_peers(peers_on_subnet) == peers_on_subnet >= TARGET_SUBNET_PEERS

\* Mutant of dial_cached_enrs_in_subnet: the ENRs stay in the cache.
dial_cached_enrs_kept(st, subnet) ==
    [st EXCEPT !.dials = Append(@, {enr.id : enr \in {e \in st.cache : subnet \in e.subnets}})]

\* Network::dial_cached_enrs_in_subnet
dial_cached_enrs_in_subnet(st, subnet) ==
    LET peers_to_dial == {enr \in st.cache : subnet \in enr.subnets}
    IN [st EXCEPT !.cache = @ \ peers_to_dial,
                  !.dials = Append(@, {enr.id : enr \in peers_to_dial})]

\* discover_subnet_peers, the closure given to filter, over the entries in
\* order
RECURSIVE filter_subnets(_, _, _)
filter_subnets(st, entries, good) ==
    IF entries = <<>> THEN st
    ELSE LET s == Head(entries)
             st1 == IF s.min_ttl = "None" THEN st
                    ELSE [st EXCEPT !.extended = Append(@, s.subnet),
                                    !.sync = IF s.subnet[1] = "SyncCommittee"
                                             THEN Append(@, s.subnet) ELSE @]
             st2 == IF enough_peers(good[s.subnet]) THEN st1
                    ELSE [dial_cached_enrs_in_subnet(st1, s.subnet)
                              EXCEPT !.filtered = Append(@, s)]
         IN filter_subnets(st2, Tail(entries), good)

\* Network::discover_subnet_peers
discover_subnet_peers(started, cache, good, subnets_to_discover) ==
    IF ~started THEN Disc(cache, <<>>, <<>>, <<>>, <<>>, <<>>)
    ELSE LET st == filter_subnets(Disc(cache, <<>>, <<>>, <<>>, <<>>, <<>>),
                                  subnets_to_discover, good)
         IN [st EXCEPT !.queries = IF st.filtered # <<>> THEN <<st.filtered>>
                                   ELSE <<>>]

\* Network::discover_subnet_peers as an action
DiscoverSubnetPeers(subnets_to_discover) ==
    /\ LET st == discover_subnet_peers(disc_started, cached_enrs, good_peers,
                                       subnets_to_discover)
       IN /\ cached_enrs' = st.cache
          /\ disc_out' = st
    /\ disc_in' = [list |-> subnets_to_discover, cache |-> cached_enrs]
    /\ UNCHANGED <<disc_started, good_peers>>
    /\ NotDisc

\* Network::new: discovery not yet asked anything
IdleDisc ==
    /\ disc_started = TRUE
    /\ cached_enrs = {}
    /\ good_peers = [s \in DiscSubnets |-> 0]
    /\ disc_in = [list |-> <<>>, cache |-> {}]
    /\ disc_out = Disc({}, <<>>, <<>>, <<>>, <<>>, <<>>)

\* discovery running or not, with any cache and any number of good peers
InitDisc ==
    /\ disc_started \in BOOLEAN
    /\ cached_enrs \in EnrCaches
    /\ good_peers \in [DiscSubnets -> 0..MaxGood]
    /\ disc_in = [list |-> <<>>, cache |-> cached_enrs]
    /\ disc_out = Disc(cached_enrs, <<>>, <<>>, <<>>, <<>>, <<>>)

NextDisc ==
    \E subnets_to_discover \in DiscoveryLists : DiscoverSubnetPeers(subnets_to_discover)

(***************************************************************************)
(* Startup: Network::start.                                                *)
(***************************************************************************)
\* a listen multiaddr: QUIC or TCP, and what swarm.listen_on answers for it
ListenAddrs == [quic : BOOLEAN, ok : BOOLEAN]
\* NetworkConfig: listen addresses, disable_quic_support, libp2p_nodes,
\* boot_nodes_enr (each ENR with one QUIC, one UDP and one TCP multiaddr),
\* boot_nodes_multiaddr (by protocol), topics; with them the boot peers the
\* peer db has connected or dialing and the kinds gossipsub rejects
Configs ==
    [listen : UNION {[1..n -> ListenAddrs] : n \in 0..MaxListen},
     disable_quic : BOOLEAN,
     libp2p_nodes : {<<>>, <<"a1">>},
     boot_nodes_enr : {<<>>, <<"b1">>, <<"b1", "b1">>, <<"b1", "b2", "b1">>},
     known : {{}, {"b1"}},
     registers : BOOLEAN,
     boot_nodes_multiaddr : {<<>>, <<"tcp">>, <<"udp">>},
     topics : {<<>>, <<"BeaconBlock">>, <<"BeaconBlock", "Attestation0">>},
     fails : {{}, {"BeaconBlock"}}]

\* what start has done so far: its result, its calls, the subscriptions
Started(result, trace, sides) == [result |-> result, trace |-> trace, sides |-> sides]

\* Mutant of start_listen: a listen failure is logged and start goes on.
RECURSIVE start_listen_lenient(_, _, _)
start_listen_lenient(st, addrs, disable_quic) ==
    IF addrs = <<>> THEN st
    ELSE LET a == Head(addrs)
             proto == IF a.quic THEN "quic" ELSE "tcp"
         IN IF disable_quic /\ a.quic
            THEN start_listen_lenient(st, Tail(addrs), disable_quic)
            ELSE start_listen_lenient(
                     [st EXCEPT !.trace = Append(@, <<"listen", proto,
                                                      IF a.ok THEN "Ok" ELSE "Err">>)],
                     Tail(addrs), disable_quic)

\* start, `for listen_multiaddr in config.listen_addrs().libp2p_addresses()`
RECURSIVE start_listen(_, _, _)
start_listen(st, addrs, disable_quic) ==
    IF addrs = <<>> THEN st
    ELSE LET a == Head(addrs)
             proto == IF a.quic THEN "quic" ELSE "tcp"
         IN IF disable_quic /\ a.quic THEN start_listen(st, Tail(addrs), disable_quic)
            ELSE IF a.ok
            THEN start_listen([st EXCEPT !.trace = Append(@, <<"listen", proto, "Ok">>)],
                              Tail(addrs), disable_quic)
            ELSE [st EXCEPT !.result = "Err",
                            !.trace = Append(@, <<"listen", proto, "Err">>)]

\* Vec::dedup: consecutive equal elements are removed
RECURSIVE dedup(_)
dedup(v) ==
    IF Len(v) < 2 THEN v
    ELSE IF v[1] = v[2] THEN dedup(Tail(v))
    ELSE <<v[1]>> \o dedup(Tail(v))

\* start, `for bootnode_enr in boot_nodes`: the QUIC multiaddr when QUIC is
\* enabled, then the multiaddrs that are not UDP, each unless the peer is
\* connected or dialing. `dialing` is what is_connected_or_dialing answers
\* with: the peers known at the start and, when cfg.registers, the peers
\* dialed since (the peer database decides that, so both are possible).
RECURSIVE dial_boot_nodes(_, _, _)
dial_boot_nodes(boot_nodes, cfg, dialing) ==
    IF boot_nodes = <<>> THEN <<>>
    ELSE LET b == Head(boot_nodes)
             quic == IF ~cfg.disable_quic /\ b \notin dialing
                     THEN << <<"dial", b, "quic">> >> ELSE <<>>
             after_quic == IF quic # <<>> /\ cfg.registers THEN dialing \cup {b}
                           ELSE dialing
             tcp == IF b \notin after_quic THEN << <<"dial", b, "tcp">> >> ELSE <<>>
             after_tcp == IF tcp # <<>> /\ cfg.registers THEN after_quic \cup {b}
                          ELSE after_quic
         IN quic \o tcp \o dial_boot_nodes(Tail(boot_nodes), cfg, after_tcp)

\* start, `for topic_kind in &config.topics { self.subscribe_kind(..) }`
RECURSIVE start_subscribe(_, _, _, _)
start_subscribe(st, topics, digest, fails) ==
    IF topics = <<>> THEN st
    ELSE LET kind == Head(topics)
             sides == subscribe_kind(st.sides, kind, digest, kind \notin fails)
         IN start_subscribe(
                [st EXCEPT !.sides = sides,
                           !.trace = Append(@, <<"subscribe", kind,
                                                 IF sides.ret THEN "Ok" ELSE "Err">>)],
                Tail(topics), digest, fails)

\* Mutant of start: the topics are subscribed before the peers are dialed.
start_subscribe_first(cfg, sides, digest) ==
    LET listened == start_listen(Started("Ok", <<>>, sides), cfg.listen, cfg.disable_quic)
        dials == [i \in 1..Len(cfg.libp2p_nodes) |-> <<"dial", cfg.libp2p_nodes[i], "tcp">>]
                     \o dial_boot_nodes(dedup(cfg.boot_nodes_enr), cfg, cfg.known)
        subscribed == start_subscribe(listened, cfg.topics, digest, cfg.fails)
    IN IF listened.result = "Err" THEN listened
       ELSE [subscribed EXCEPT !.trace = @ \o dials]

\* Network::start
start(cfg, sides, digest) ==
    LET listened == start_listen(Started("Ok", <<>>, sides), cfg.listen, cfg.disable_quic)
        dials == [i \in 1..Len(cfg.libp2p_nodes) |-> <<"dial", cfg.libp2p_nodes[i], "tcp">>]
                     \o dial_boot_nodes(dedup(cfg.boot_nodes_enr), cfg, cfg.known)
                     \o SelectSeq([i \in 1..Len(cfg.boot_nodes_multiaddr) |->
                                      <<"dial", "m1", cfg.boot_nodes_multiaddr[i]>>],
                                  LAMBDA d : d[3] = "tcp")
    IN IF listened.result = "Err" THEN listened
       ELSE start_subscribe([listened EXCEPT !.trace = @ \o dials],
                            cfg.topics, digest, cfg.fails)

\* Network::start as an action: it runs once, at the end of Network::new
Start ==
    /\ start_out.result = "-"
    /\ LET st == start(config, Now, enr_fork_id)
       IN /\ start_out' = st
          /\ Becomes(st.sides)
    /\ UNCHANGED <<config, enr_fork_id>>
    /\ UNCHANGED <<metaVars, rpcVars, histVars, stepVars, cacheVars, pollVars, discVars,
                   scoreVars, builderVars>>

\* a service that was started with the default configuration
IdleStart ==
    /\ config = [listen |-> <<>>, disable_quic |-> FALSE, libp2p_nodes |-> <<>>,
                 boot_nodes_enr |-> <<>>, known |-> {}, registers |-> FALSE,
                 boot_nodes_multiaddr |-> <<>>,
                 topics |-> <<>>, fails |-> {}]
    /\ start_out = Started("Ok", <<>>, Sides({}, {}, FALSE))

\* Network::new before it calls start
InitStart ==
    /\ config \in Configs
    /\ start_out = Started("-", <<>>, Sides({}, {}, FALSE))

(***************************************************************************)
(* update_gossipsub_parameters.                                            *)
(***************************************************************************)
MaxSubnets == 3

\* the topic a score parameter call names: get_topic(kind) with the subnet
\* of GossipKind::Attestation(SubnetId::new(i)), 0 for the other kinds
ScoreTopic(kind, subnet, digest) ==
    [kind |-> kind, subnet |-> subnet, fork_digest |-> digest]
SetTopicParams(topic, params) == <<"set_topic_params", topic, params>>
Scored(result, calls) == [result |-> result, calls |-> calls]

\* Mutant of update_gossipsub_parameters: the last attestation subnet is
\* left out.
update_gossipsub_parameters_short(fork_digest, count, dynamic_ok, fail_at) ==
    LET all == << SetTopicParams(ScoreTopic("BeaconBlock", 0, fork_digest),
                                 "beacon_block_params"),
                  SetTopicParams(ScoreTopic("BeaconAggregateAndProof", 0, fork_digest),
                                 "beacon_aggregate_proof_params") >>
                   \o [i \in 1..(IF count > 0 THEN count - 1 ELSE 0) |->
                          SetTopicParams(ScoreTopic("Attestation", i - 1, fork_digest),
                                         "beacon_attestation_subnet_params")]
    IN IF ~dynamic_ok THEN Scored("Err", <<>>)
       ELSE IF fail_at \in 1..Len(all) THEN Scored("Err", SubSeq(all, 1, fail_at))
       ELSE Scored("Ok", all)

\* Network::update_gossipsub_parameters. dynamic_ok: get_dynamic_topic_params
\* answers Ok; fail_at: the set_topic_params call that answers Err (0: none);
\* count: score_settings.attestation_subnet_count()
update_gossipsub_parameters(fork_digest, count, dynamic_ok, fail_at) ==
    LET all == << SetTopicParams(ScoreTopic("BeaconBlock", 0, fork_digest),
                                 "beacon_block_params"),
                  SetTopicParams(ScoreTopic("BeaconAggregateAndProof", 0, fork_digest),
                                 "beacon_aggregate_proof_params") >>
                   \o [i \in 1..count |->
                          SetTopicParams(ScoreTopic("Attestation", i - 1, fork_digest),
                                         "beacon_attestation_subnet_params")]
    IN IF ~dynamic_ok THEN Scored("Err", <<>>)
       ELSE IF fail_at \in 1..Len(all) THEN Scored("Err", SubSeq(all, 1, fail_at))
       ELSE Scored("Ok", all)

\* the input of a call and self.enr_fork_id.fork_digest when it was made
ScoreInput(count, dynamic_ok, fail_at, digest) ==
    [count |-> count, dynamic_ok |-> dynamic_ok, fail_at |-> fail_at,
     fork_digest |-> digest]

\* Network::update_gossipsub_parameters as an action
UpdateGossipsubParameters(count, dynamic_ok, fail_at) ==
    /\ score_in' = ScoreInput(count, dynamic_ok, fail_at, enr_fork_id)
    /\ score_out' = update_gossipsub_parameters(enr_fork_id, count, dynamic_ok, fail_at)
    /\ UNCHANGED <<metaVars, rpcVars, subVars, histVars, stepVars, cacheVars, pollVars,
                   discVars, startVars, builderVars>>

\* update_fork_version next to the score parameters
ScoreUpdateForkVersion(digest) ==
    /\ UpdateForkVersion(digest)
    /\ UNCHANGED <<histVars, stepVars>>
    /\ NotGossip

IdleScore ==
    /\ score_in = ScoreInput(0, TRUE, 0, "-")
    /\ score_out = Scored("-", <<>>)

NextScore ==
    \/ \E count \in 0..MaxSubnets, dynamic_ok \in BOOLEAN :
          \E fail_at \in 0..(count + 2) :
             UpdateGossipsubParameters(count, dynamic_ok, fail_at)
    \/ \E d \in Digests : ScoreUpdateForkVersion(d)

(***************************************************************************)
(* The timeouts of the gossip cache built in Network::new.                 *)
(***************************************************************************)
MaxSecondsPerSlot == 12
MaxSlotsPerEpoch == 9

ChainSpecs ==
    [seconds_per_slot : 1..MaxSecondsPerSlot,
     slots_per_epoch : (1..MaxSlotsPerEpoch) \cup {16, 32}]

\* Network::new, GossipCache::builder(): the timeouts in seconds;
\* Duration::from_secs takes a u64, so the half epoch is a floor division
gossip_cache_timeouts(seconds_per_slot, slots_per_epoch) ==
    LET slot_duration == seconds_per_slot
        half_epoch == (seconds_per_slot * slots_per_epoch) \div 2
    IN [beacon_block |-> slot_duration,
        aggregates |-> half_epoch,
        attestation |-> half_epoch,
        voluntary_exit |-> half_epoch * 2,
        proposer_slashing |-> half_epoch * 2,
        attester_slashing |-> half_epoch * 2,
        bls_to_execution_change |-> half_epoch * 2]

\* the cache before the builder ran
NoTimeouts ==
    [beacon_block |-> 0, aggregates |-> 0, attestation |-> 0, voluntary_exit |-> 0,
     proposer_slashing |-> 0, attester_slashing |-> 0, bls_to_execution_change |-> 0]

\* Network::new builds the gossip cache
BuildGossipCache ==
    /\ cache_ttl = NoTimeouts
    /\ cache_ttl' = gossip_cache_timeouts(chain_spec.seconds_per_slot,
                                          chain_spec.slots_per_epoch)
    /\ UNCHANGED chain_spec
    /\ UNCHANGED <<metaVars, rpcVars, subVars, histVars, stepVars, cacheVars, pollVars,
                   discVars, startVars, scoreVars>>

\* ---- the calls that read the active fork digest, next to the two that
\* belong to a fork transition
NextDigest ==
    \/ \E k \in Kinds, ok \in BOOLEAN :
          SubscribeKind(k, ok) /\ Called("subscribe_kind", k, "-") /\ FrameCall
    \/ \E k \in Kinds, ok \in BOOLEAN :
          UnsubscribeKind(k, ok) /\ Called("unsubscribe_kind", k, "-") /\ FrameCall
    \/ \E f \in ForkNames, d \in Digests :
          SubscribeNewForkTopics(f, d, {})
          /\ Called("subscribe_new_fork_topics", f, d) /\ FrameCall
    \/ \E d \in Digests :
          UpdateForkVersion(d) /\ Called("update_fork_version", "-", d) /\ FrameCall
    \/ Publish(<<PubsubMessage("BeaconBlock", "m1")>>, <<"Ok">>)
    \/ UpdateGossipsubParameters(1, TRUE, 0)

\* a service on a chain with 12 second slots and 32 slots in an epoch
IdleBuilder ==
    /\ chain_spec = [seconds_per_slot |-> 12, slots_per_epoch |-> 32]
    /\ cache_ttl = gossip_cache_timeouts(12, 32)

InitBuilder ==
    /\ chain_spec \in ChainSpecs
    /\ cache_ttl = NoTimeouts

(***************************************************************************)
(* The specifications.                                                     *)
(***************************************************************************)
IdleGossip ==
    /\ InitGossip /\ InitHist /\ InitSteps /\ InitCache /\ InitPoll /\ IdleDisc /\ IdleStart
    /\ IdleScore /\ IdleBuilder

InitSpecMeta == InitMeta /\ IdleRpc /\ IdleGossip
InitSpecRpc == IdleMeta /\ InitRpc /\ IdleGossip
InitIdle == IdleMeta /\ IdleRpc /\ IdleGossip

SpecMeta == InitSpecMeta /\ [][NextMeta]_vars
SpecRpcEvent == InitSpecRpc /\ [][NextRpcEvent]_vars
SpecRpc == InitSpecRpc /\ [][NextRpc]_vars
SpecGossip == InitIdle /\ [][NextGossip]_vars
SpecLaw == InitIdle /\ [][NextLaw]_vars
SpecFork == InitIdle /\ [][NextFork]_vars
SpecSteps == InitIdle /\ [][NextSteps]_vars
SpecCall == InitIdle /\ [][NextCall]_vars
SpecCache == InitIdle /\ [][NextCache]_vars
SpecPoll == InitIdle /\ [][NextPoll]_vars
\* two payloads wait in the cache after publishes that got InsufficientPeers
InitTimers ==
    /\ IdleMeta /\ IdleRpc /\ InitGossip /\ InitHist /\ InitSteps /\ InitPoll /\ IdleDisc /\ IdleStart
    /\ IdleScore /\ IdleBuilder
    /\ gossip_cache = [t \in CacheTopics |->
                          IF t.fork_digest = "D1" /\ HasTimeout(t.kind)
                          THEN <<"m1">> ELSE <<>>]
    /\ gs_publishes = <<>>
    /\ gs_out = None
    /\ gs_failed = 0
    /\ cache_op = NoCacheOp
SpecTimers == InitTimers /\ [][NextTimers]_vars
\* the host keeps polling next_event
SpecTimersLive == SpecTimers /\ WF_vars(PollNetwork)
SpecPm == InitIdle /\ [][NextPm]_vars
SpecBehaviours == InitIdle /\ [][NextBehaviours]_vars
SpecScore == InitIdle /\ [][NextScore]_vars
SpecDigest == InitIdle /\ [][NextDigest]_vars
InitSpecBuilder ==
    /\ IdleMeta /\ IdleRpc /\ InitGossip /\ InitHist /\ InitSteps /\ InitCache /\ InitPoll
    /\ IdleDisc /\ IdleStart /\ IdleScore /\ InitBuilder
SpecBuilder == InitSpecBuilder /\ [][BuildGossipCache]_vars
InitSpecDisc ==
    /\ IdleMeta /\ IdleRpc /\ InitGossip /\ InitHist /\ InitSteps /\ InitCache /\ InitPoll
    /\ InitDisc /\ IdleStart /\ IdleScore /\ IdleBuilder
SpecDisc == InitSpecDisc /\ [][NextDisc]_vars
InitSpecStart ==
    /\ IdleMeta /\ IdleRpc /\ InitGossip /\ InitHist /\ InitSteps /\ InitCache /\ InitPoll
    /\ IdleDisc /\ InitStart /\ IdleScore /\ IdleBuilder
SpecStart == InitSpecStart /\ [][Start]_vars
SpecBan == InitIdle /\ [][NextBan]_vars
\* the host keeps polling next_event, and a connection that was sent the
\* Goodbye is closed
SpecBanLive ==
    SpecBan /\ WF_vars(PollNetwork) /\ \A p \in Peers : WF_vars(ConnectionClosed(p))

(***************************************************************************)
(* The claims.                                                             *)
(***************************************************************************)

\* C1 (as claimed): the RPC layer never advertises a sequence number greater
\* than the one in the persisted metadata file.
C1_RpcSeqPersisted == rpc_seq_number <= disk_metadata.seq_number

\* C2: every call of update_enr_subnet raises the metadata sequence number by
\* exactly 1, and when it returns the metadata file equals the in-memory
\* metadata.
C2_MetadataWrite ==
    [][/\ (meta_pc = "idle" /\ meta_pc' = "locked")
            => local_metadata'.seq_number = local_metadata.seq_number + 1
       /\ (meta_pc = "notified" /\ meta_pc' = "idle")
            => /\ local_metadata'.seq_number = meta_call_seq' + 1
               /\ disk_metadata' = local_metadata']_vars

\* C2 witness: a call that changed a bit has returned.
C2_Witness ==
    /\ meta_pc = "idle"
    /\ local_metadata.seq_number = meta_call_seq + 1
    /\ local_metadata.attnets # {}
    /\ disk_metadata = local_metadata

\* C3: a response, an end of stream or an outbound handler error whose request
\* id is Internal makes inject_rpc_event return no event.
C3_InternalNeverSurfaces ==
    (rpc_in.id.tag = "Internal"
        /\ rpc_in.msg \in {"Response", "EndOfStream", "OutboundErr"})
    => rpc_out = None

\* C3 witness: an Internal request failed; the peer manager was told, no event
\* was returned.
C3_Witness ==
    /\ rpc_in.msg = "OutboundErr"
    /\ rpc_in.id = Internal
    /\ pm_calls # <<>>
    /\ rpc_out = None

\* C4 (as claimed): once the RPC layer is through with an application request
\* (answered, stream ended or failed), exactly one terminal public event
\* (end-of-stream marker or RPCFailed) was emitted for its id.
C4_OneTerminalEvent ==
    \A n \in AppIds :
        requests[n].st \in {"answered", "eos", "failed"} => Len(surfaced[n]) = 1

\* C4 (amended): for a request of a streamed kind, no terminal event is
\* emitted while it is open, and once it is over exactly one was emitted: the
\* end-of-stream marker of its kind, or RPCFailed with the error of the
\* failure (Disconnected when the peer was disconnected first).
C4_OneTerminalEventStreamed ==
    \A n \in AppIds :
        LET r == requests[n]
        IN r.kind \in ResponseTerminations =>
            /\ r.st = "open" => surfaced[n] = <<>>
            /\ r.st = "eos" =>
                 surfaced[n] = << NetworkEvent("ResponseReceived", r.peer, n,
                                               <<r.kind, "None">>) >>
            /\ r.st = "failed" =>
                 surfaced[n] = << NetworkEvent("RPCFailed", r.peer, n, <<r.error>>) >>

\* C4 witness: a streamed request whose peer was disconnected first got its
\* RPCFailed{Disconnected}.
C4_Witness ==
    \E n \in AppIds :
        /\ requests[n].kind \in ResponseTerminations
        /\ requests[n].st = "failed"
        /\ requests[n].error = "Disconnected"
        /\ peer_state[requests[n].peer] = "disconnected"
        /\ Len(surfaced[n]) = 1
        /\ surfaced[n][1].ev = "RPCFailed"

\* C5: from a peer the peer manager does not report connected, an inbound
\* request or inbound handler error gives no event and no peer-manager call;
\* an outbound handler error is reported to the peer manager and, with an
\* Application id, returned as RPCFailed.
C5_DisconnectedPeerGuard ==
    ~rpc_in.connected =>
        /\ rpc_in.msg \in {"Request", "InboundErr"} =>
              rpc_out = None /\ pm_calls = <<>>
        /\ rpc_in.msg = "OutboundErr" =>
              /\ pm_calls = << <<"handle_rpc_error", rpc_in.peer_id, rpc_in.type,
                                 rpc_in.error, "Outgoing">> >>
              /\ rpc_in.id.tag = "Application" =>
                    rpc_out = NetworkEvent("RPCFailed", rpc_in.peer_id,
                                           rpc_in.id.id, <<rpc_in.error>>)

\* C5 witness: an application request to a peer that is no longer connected
\* failed and RPCFailed was returned.
C5_Witness ==
    /\ ~rpc_in.connected
    /\ rpc_in.msg = "OutboundErr"
    /\ rpc_in.id.tag = "Application"
    /\ rpc_out.ev = "RPCFailed"

\* C6 (as claimed): every topic of the subscription set is one the gossip
\* layer reports subscribed.
C6_SetWithinGossip == gossipsub_subscriptions \subseteq gs_subscribed

\* C7 (as claimed), the half the claim singles out (the other half is C6): no
\* topic the gossip layer reports subscribed is missing from the subscription
\* set.
C7_GossipWithinSet == gs_subscribed \subseteq gossipsub_subscriptions

\* C8: in subscribe(t) the set is written before gossipsub is called: a step
\* of subscribe that leaves the gossip layer subscribed to t starts in a state
\* whose subscription set contains t.
C8_SetWrittenBeforeGossipCall ==
    [][\A t \in Topics :
          (sub_pc' = "subscribe" \/ sub_pc = "subscribe")
          /\ t \notin gs_subscribed /\ t \in gs_subscribed'
          => t \in gossipsub_subscriptions]_vars

\* C8 witness: between the two effects of subscribe(t) the set has t and the
\* gossip layer does not.
C8_Witness ==
    /\ sub_pc = "subscribe"
    /\ sub_topic \in gossipsub_subscriptions
    /\ sub_topic \notin gs_subscribed

\* C9 (as claimed): subscribe(t) followed by unsubscribe(t) leaves the
\* subscription set as it was before the two calls.
C9_RoundTrip ==
    law.phase = "unsubscribed" => gossipsub_subscriptions = law.S

\* C9 (amended): subscribe(t) followed by unsubscribe(t) leaves the set S of
\* before the two calls without t: S itself when t was not in S.
C9_RoundTripRemoves ==
    law.phase = "unsubscribed" => gossipsub_subscriptions = law.S \ {law.t}

\* C9 witness: the two calls were made from a non-empty set without t, and
\* the set is back.
C9_Witness ==
    /\ law.phase = "unsubscribed"
    /\ law.S # {}
    /\ law.t \notin law.S
    /\ gossipsub_subscriptions = law.S

\* the two subscriptions a topic t subscribed before
\* subscribe_new_fork_topics(F, D) must have: t itself and its kind at D
DualSubscribed ==
    /\ watch.t \in gossipsub_subscriptions
    /\ GossipTopic(watch.t.kind, watch.D) \in gossipsub_subscriptions

\* C10 (as claimed): from subscribe_new_fork_topics(F, D) until
\* unsubscribe_from_fork_topics_except(D), every kind subscribed before the
\* call is subscribed at its old digest and at D.
C10_DualUntilExcept == watch.active => DualSubscribed

\* C10 (amended): the same, until the next unsubscribing call of any kind
\* (unsubscribe, unsubscribe_kind, unsubscribe_from_fork_topics_except).
C10_DualUntilUnsubscribe == (watch.active /\ ~watch.unsub) => DualSubscribed

\* C10 witness: after the fork call a kind is subscribed at two digests, the
\* new one not known to the gossip layer.
C10_Witness ==
    /\ watch.active /\ ~watch.unsub
    /\ watch.t.fork_digest # watch.D
    /\ DualSubscribed
    /\ GossipTopic(watch.t.kind, watch.D) \notin gs_subscribed

\* C11: subscribe_new_fork_topics(F, D) applied to the subscription set S
\* leaves exactly S, the kinds of S at D and the core kinds of F at D.
C11_ForkTopicsExact ==
    call.op = "subscribe_new_fork_topics" =>
        gossipsub_subscriptions =
            call.S \cup {GossipTopic(t.kind, call.D) : t \in call.S}
                   \cup {GossipTopic(k, call.D) : k \in fork_core_topics(call.F)}

\* C11 witness: the call was applied to a set with a non-core kind at another
\* digest, and that kind is now at both digests.
C11_Witness ==
    /\ call.op = "subscribe_new_fork_topics"
    /\ \E t \in call.S :
          /\ t.fork_digest # call.D
          /\ t.kind \notin fork_core_topics(call.F)
          /\ t \in gossipsub_subscriptions
          /\ GossipTopic(t.kind, call.D) \in gossipsub_subscriptions \ call.S

\* C12: after unsubscribe_from_fork_topics_except(d) the set has no topic of
\* another digest and still has every topic of digest d it had before.
C12_OnlyExceptDigestLeft ==
    call.op = "unsubscribe_from_fork_topics_except" =>
        /\ \A t \in gossipsub_subscriptions : t.fork_digest = call.D
        /\ \A t \in call.S : t.fork_digest = call.D => t \in gossipsub_subscriptions

\* C12 witness: the call was applied to a set with topics of both digests.
C12_Witness ==
    /\ call.op = "unsubscribe_from_fork_topics_except"
    /\ \E t \in call.S : t.fork_digest # call.D
    /\ \E t \in call.S : t.fork_digest = call.D /\ t \in gossipsub_subscriptions
    /\ \A t \in gossipsub_subscriptions : t.fork_digest = call.D

\* the gossipsub.publish calls of the last handler that satisfy P
PublishesOf(P(_)) == {i \in 1..Len(gs_publishes) : P(gs_publishes[i])}
IsInsufficient(c) == c.result = "InsufficientPeers"
IsCachedRetry(c) == c.result = "InsufficientPeers" /\ c.topic.kind \in TimeoutKinds
\* the last handler was publish and gossipsub answered InsufficientPeers for
\* every topic
PublishedToEmptyMesh ==
    /\ cache_op.op = "publish"
    /\ \A i \in 1..Len(gs_publishes) : IsInsufficient(gs_publishes[i])

\* C13 (as claimed): a publish whose topics all get InsufficientPeers returns
\* no public event and adds as many cache entries as it has topics.
C13_CachedPerTopic ==
    PublishedToEmptyMesh =>
        /\ gs_out = None
        /\ CacheCount(gossip_cache) = cache_op.count + Len(gs_publishes)

\* C13 (amended): such a publish returns no public event and adds as many
\* cache entries as it has topics of a kind with a configured timeout.
C13_CachedPerTimeoutTopic ==
    PublishedToEmptyMesh =>
        /\ gs_out = None
        /\ CacheCount(gossip_cache) =
              cache_op.count
              + Cardinality({i \in 1..Len(gs_publishes) :
                                gs_publishes[i].topic.kind \in TimeoutKinds})

\* C13 witness: two messages published to an empty mesh, one of a kind with
\* a timeout; one entry was added.
C13_Witness ==
    /\ PublishedToEmptyMesh
    /\ Len(gs_publishes) = 2
    /\ gs_publishes[1].topic.kind = "BeaconBlock"
    /\ gs_publishes[2].topic.kind = "SyncCommitteeMessage0"
    /\ CacheCount(gossip_cache) = cache_op.count + 1

\* C14: a publish adds a cache entry exactly for the topics that got
\* InsufficientPeers and whose kind has a timeout; a sync committee message
\* is never in the cache, and a Subscribed event for its topic republishes
\* nothing.
C14_CachedOnlyWithTimeout ==
    /\ cache_op.op = "publish" =>
          CacheCount(gossip_cache) =
              cache_op.count + Cardinality(PublishesOf(IsCachedRetry))
    /\ \A t \in CacheTopics :
          t.kind = "SyncCommitteeMessage0" => gossip_cache[t] = <<>>
    /\ (cache_op.op = "subscribed" /\ cache_op.topic.kind = "SyncCommitteeMessage0")
          => gs_publishes = <<>>

\* C14 witness: a sync committee message got InsufficientPeers and the cache
\* is as it was.
C14_Witness ==
    /\ cache_op.op = "publish"
    /\ Len(gs_publishes) = 1
    /\ gs_publishes[1].topic.kind = "SyncCommitteeMessage0"
    /\ gs_publishes[1].result = "InsufficientPeers"
    /\ CacheCount(gossip_cache) = cache_op.count
    /\ cache_op.count > 0

\* C15: handling Subscribed for a topic publishes the cached payloads of the
\* topic, each once and in insertion order, and leaves the cache without an
\* entry for the topic.
C15_RepublishInOrder ==
    (cache_op.op = "subscribed" /\ cache_op.topic \in CacheTopics) =>
        /\ Len(gs_publishes) = Len(cache_op.msgs)
        /\ \A i \in 1..Len(gs_publishes) :
              /\ gs_publishes[i].topic = cache_op.topic
              /\ gs_publishes[i].data = cache_op.msgs[i]
        /\ gossip_cache[cache_op.topic] = <<>>

\* C15 witness: two different payloads were cached for the topic and went
\* out in their order.
C15_Witness ==
    /\ cache_op.op = "subscribed"
    /\ cache_op.msgs = <<"m1", "m2">>
    /\ Len(gs_publishes) = 2
    /\ gs_publishes[1].data = "m1" /\ gs_publishes[2].data = "m2"
    /\ gs_publishes[1].result = "Ok"
    /\ gossip_cache[cache_op.topic] = <<>>

\* C16 (as claimed): after unsubscribe(t) the gossip cache has no entry for t.
C16_UnsubscribeClearsCache ==
    cache_op.op = "unsubscribe" => gossip_cache[cache_op.topic] = <<>>

\* an inbound BlocksByRange request with step 0 was handled
ZeroStepRequest ==
    rpc_in.msg = "Request" /\ rpc_in.type = "BlocksByRange" /\ rpc_in.step = 0
InvalidDataReport ==
    <<"handle_rpc_error", rpc_in.peer_id, "BlocksByRange", "InvalidData", "Incoming">>

\* C17 (as claimed): an inbound BlocksByRange request with step 0 returns no
\* event and the peer manager gets exactly one handle_rpc_error(InvalidData).
C17_ZeroStepReported ==
    ZeroStepRequest => (rpc_out = None /\ pm_calls = <<InvalidDataReport>>)

\* C17 (amended): such a request returns no event; the peer manager gets
\* exactly one handle_rpc_error(InvalidData) when it reports the peer
\* connected, and no call otherwise.
C17_ZeroStepReportedIfConnected ==
    ZeroStepRequest =>
        /\ rpc_out = None
        /\ pm_calls = IF rpc_in.connected THEN <<InvalidDataReport>> ELSE <<>>

\* C17 witness: a connected peer sent the request and was reported.
C17_Witness ==
    /\ ZeroStepRequest
    /\ rpc_in.connected
    /\ rpc_out = None
    /\ Len(pm_calls) = 1 /\ pm_calls[1][4] = "InvalidData"

\* the parts of C18 that hold of every message
InternalProtocolsSilent ==
    /\ (rpc_in.msg = "Request" /\ rpc_in.type \in {"Ping", "MetaData", "Goodbye"})
          => rpc_out = None
    /\ (rpc_in.msg = "Response" /\ rpc_in.type \in {"Pong", "MetaData"})
          => rpc_out = None
    /\ (rpc_in.msg = "Response" /\ rpc_in.type = "Pong")
          => pm_calls = << <<"pong_response", rpc_in.peer_id>> >>
MetaDataAnswer ==
    << <<"send_response", rpc_in.peer_id, "MetaData", local_metadata>> >>

\* C18 (as claimed): Ping, MetaData and Goodbye requests and Pong and
\* MetaData responses return no event, whatever the request id; a Pong is
\* passed to the peer manager and a MetaData request is answered with the
\* local metadata.
C18_InternalProtocols ==
    /\ InternalProtocolsSilent
    /\ (rpc_in.msg = "Request" /\ rpc_in.type = "MetaData")
          => pm_calls = MetaDataAnswer

\* C18 (amended): the same, the MetaData request being answered when the peer
\* manager reports the peer connected and dropped otherwise.
C18_InternalProtocolsIfConnected ==
    /\ InternalProtocolsSilent
    /\ (rpc_in.msg = "Request" /\ rpc_in.type = "MetaData")
          => pm_calls = IF rpc_in.connected THEN MetaDataAnswer ELSE <<>>

\* C18 witness: a Pong to a request with an Application id returned no event
\* and reached the peer manager.
C18_Witness ==
    /\ rpc_in.msg = "Response" /\ rpc_in.type = "Pong"
    /\ rpc_in.id.tag = "Application"
    /\ rpc_out = None
    /\ pm_calls = << <<"pong_response", rpc_in.peer_id>> >>

\* C19: for a streamed kind, an end of stream returns ResponseReceived with
\* <kind>(None) and a response returns ResponseReceived with <kind>(Some) for
\* an Application id, and both return nothing for an Internal id.
C19_StreamMarkers ==
    (rpc_in.msg \in {"EndOfStream", "Response"}
        /\ rpc_in.type \in ResponseTerminations) =>
        rpc_out =
            IF rpc_in.id.tag = "Application"
            THEN NetworkEvent("ResponseReceived", rpc_in.peer_id, rpc_in.id.id,
                              <<rpc_in.type,
                                IF rpc_in.msg = "EndOfStream" THEN "None" ELSE "Some">>)
            ELSE None

\* C19 witness: the end of a DataColumnsByRange stream of an application
\* request returned its marker.
C19_Witness ==
    /\ rpc_in.msg = "EndOfStream"
    /\ rpc_in.type = "DataColumnsByRange"
    /\ rpc_in.id.tag = "Application"
    /\ rpc_out.ev = "ResponseReceived"
    /\ rpc_out.body = <<"DataColumnsByRange", "None">>

\* the public events a sequence of swarm events maps to, in order
RECURSIVE PublicEventsOf(_)
PublicEventsOf(events) ==
    IF events = <<>> THEN <<>>
    ELSE LET ev == swarm_dispatch(Head(events), local_metadata)
         IN (IF ev = None THEN <<>> ELSE <<ev>>) \o PublicEventsOf(Tail(events))

\* C20: the swarm events are dispatched in arrival order, each once, the rest
\* staying queued; the events returned by the polls are the public events of
\* the dispatched swarm events, in order; and a poll that returned Ready
\* stopped at the swarm event that gave its event.
C20_PollInArrivalOrder ==
    /\ poll_dispatched \o swarm_queue = poll_arrived
    /\ poll_emitted = PublicEventsOf(poll_dispatched)
    /\ poll_dispatched # <<>> /\ poll_emitted # <<>> /\ poll_ret # Pending
          => /\ poll_ret = poll_emitted[Len(poll_emitted)]
             /\ poll_ret = swarm_dispatch(poll_dispatched[Len(poll_dispatched)],
                                          local_metadata)

\* C20 witness: a poll returned the first of two public events that were
\* ready and left the second queued.
C20_Witness ==
    /\ Len(poll_emitted) = 1
    /\ poll_ret.ev = "ResponseReceived"
    /\ Len(poll_dispatched) = 2
    /\ Len(swarm_queue) = 1
    /\ swarm_dispatch(swarm_queue[1], local_metadata) # None

\* C25: after publish, the cache of a topic differs from the cache before the
\* call only if gossipsub answered InsufficientPeers for that topic: Ok,
\* Duplicate and every other error leave it as it was.
C25_OnlyInsufficientPeersCached ==
    cache_op.op = "publish" =>
        \A t \in CacheTopics :
            (\A i \in 1..Len(gs_publishes) :
                gs_publishes[i].topic = t => gs_publishes[i].result # "InsufficientPeers")
                => gossip_cache[t] = cache_op.cache[t]

\* C25 witness: a publish to a topic with a timeout that failed with
\* Duplicate and with another error next to one that was cached.
C25_Witness ==
    /\ cache_op.op = "publish"
    /\ \E i, j \in 1..Len(gs_publishes) :
          /\ gs_publishes[i].result = "MessageTooLarge"
          /\ HasTimeout(gs_publishes[i].topic.kind)
          /\ gs_publishes[j].result = "InsufficientPeers"
          /\ gossip_cache[gs_publishes[j].topic] # cache_op.cache[gs_publishes[j].topic]
          /\ gossip_cache[gs_publishes[i].topic] = cache_op.cache[gs_publishes[i].topic]

\* C26 (as stated): after publish, the failed-publish gauge was incremented
\* once for each error other than Duplicate and InsufficientPeers, and not
\* for these two.
C26_MeteredOnlyOtherErrors ==
    cache_op.op = "publish" =>
        gs_failed = Cardinality({i \in 1..Len(gs_publishes) :
                        gs_publishes[i].result
                            \notin {"Ok", "Duplicate", "InsufficientPeers"}})

\* the swarm events the last poll dispatched
LastTaken ==
    SubSeq(poll_dispatched, Len(poll_dispatched) - poll_taken + 1, Len(poll_dispatched))
\* the calls of the last poll whose name is in a set
CallsNamed(names) == {i \in 1..Len(poll_calls) : poll_calls[i][1] \in names}

\* C21: a peer that was connected and is reported Fatal is in the end
\* announced by a PeerDisconnected event and in the discovery ban list.
C21_FatalLeadsToBan ==
    \A p \in Peers :
        (p \in fatal) ~>
            (/\ p \in disc_banned
             /\ \E i \in 1..Len(poll_emitted) :
                   poll_emitted[i] = NetworkEvent("PeerDisconnected", p, 0, <<>>))

\* C21 witness: p1 was reported Fatal, the RPC behaviour was asked to shut
\* down, and after the close p1 is announced disconnected and banned.
C21_Witness ==
    /\ "p1" \in fatal
    /\ "p1" \in disc_banned
    /\ peer_state["p1"] = "disconnected"
    /\ \E i \in 1..Len(poll_emitted) :
          poll_emitted[i] = NetworkEvent("PeerDisconnected", "p1", 0, <<>>)

\* C27 (as stated): a poll that services a tick of the score-update timer
\* applies the topic score parameters to gossipsub.
C27_TickSetsTopicParams ==
    CallsNamed({"pm_update_gossipsub_scores"}) # {}
        => CallsNamed({"set_topic_params"}) # {}

\* C28: every event returned comes from a swarm event, a poll that reports
\* an expired topic returns Pending, and a poll returns Pending only with
\* the swarm drained, no elapsed tick left and nothing ready in the stream
\* of the cache.
C28_PendingOnlyWhenDrained ==
    /\ [](/\ poll_emitted = PublicEventsOf(poll_dispatched)
          /\ CallsNamed({"inc_expired_late_publish"}) # {} => poll_ret = Pending)
    /\ [][PollNetwork /\ poll_ret' = Pending
            => swarm_queue' = <<>> /\ score_ticks' = 0 /\ cache_ready' = <<>>]_vars

\* C28 witness: a poll took a silent swarm event, a tick and an expired topic
\* and returned Pending.
C28_Witness ==
    /\ poll_ret = Pending
    /\ poll_taken = 1
    /\ CallsNamed({"inc_expired_late_publish"}) # {}
    /\ CallsNamed({"pm_update_gossipsub_scores"}) # {}
    /\ swarm_queue = <<>> /\ score_ticks = 0 /\ cache_ready = <<>>

\* C29: of the gossip messages the last poll took, the undecodable ones are
\* each reported Reject with their id and source and give no event, and a
\* decodable one ends the poll with one PubsubMessage event of its id,
\* source and topic and no report.
C29_DecodeOrReject ==
    LET new == LastTaken
        gs == {i \in 1..Len(new) : new[i].kind = "Gossipsub"}
        bad == {i \in gs : new[i].body[2] = "garbage"}
    IN /\ Cardinality(CallsNamed({"report_message_validation_result"}))
              = Cardinality(bad)
       /\ \A i \in bad :
             /\ \E j \in CallsNamed({"report_message_validation_result"}) :
                   poll_calls[j] = <<"report_message_validation_result",
                                     new[i].id.id, new[i].peer, "Reject">>
             /\ i = Len(new) => poll_ret = Pending
       /\ \A i \in gs \ bad :
             /\ i = Len(new)
             /\ poll_ret = NetworkEvent("PubsubMessage", new[i].peer, new[i].id.id,
                                        new[i].body)
             /\ poll_emitted[Len(poll_emitted)] = poll_ret

\* C29 witness: one poll took an undecodable and then a decodable message.
C29_Witness ==
    /\ poll_taken = 2
    /\ LastTaken[1].kind = "Gossipsub" /\ LastTaken[1].body[2] = "garbage"
    /\ LastTaken[2].kind = "Gossipsub" /\ LastTaken[2].body[2] = "block"
    /\ poll_ret.ev = "PubsubMessage"
    /\ Len(poll_calls) = 1

\* the calls the claim gives each peer manager event
RECURSIVE PmCallsStated(_)
PmCallsStated(events) ==
    IF events = <<>> THEN <<>>
    ELSE LET e == Head(events)
         IN (CASE e.ev = "Banned" -> << <<"ban_peer", e.peer>> \o e.body >>
               [] e.ev = "UnBanned" -> << <<"unban_peer", e.peer>> \o e.body >>
               [] e.ev = "DiscoverPeers" -> << <<"discover_peers">> >>
               [] e.ev = "DiscoverSubnetPeers" -> << <<"discover_subnet_peers">> >>
               [] e.ev = "Ping" -> << <<"rpc_ping", e.peer, "Internal">> >>
               [] e.ev = "MetaData" ->
                    << <<"rpc_send_request", e.peer, "Internal", "MetaData">> >>
               [] e.ev = "DisconnectPeer" ->
                    << <<"rpc_shutdown", e.peer, "Internal", "Goodbye">> >>
               [] OTHER -> <<>>)
            \o PmCallsStated(Tail(events))

\* C30: of the peer manager events the last poll took, exactly the
\* connected, disconnected and Status events give a public event (of the
\* same shape, Status as StatusPeer), which ends the poll; the others only
\* make their one call on discovery or on the RPC behaviour.
C30_PmEvents ==
    LET new == LastTaken
        public == {"PeerConnectedIncoming", "PeerConnectedOutgoing",
                   "PeerDisconnected", "Status"}
    IN /\ \A i \in 1..Len(new) :
             IF new[i].ev \in public
             THEN /\ i = Len(new)
                  /\ poll_ret = NetworkEvent(IF new[i].ev = "Status" THEN "StatusPeer"
                                             ELSE new[i].ev, new[i].peer, 0, <<>>)
             ELSE i = Len(new) => poll_ret = Pending
       /\ poll_calls = PmCallsStated(new)

\* C30 witness: one poll took a Banned and a DisconnectPeer event and
\* then a Status event.
C30_Witness ==
    /\ poll_taken = 3
    /\ LastTaken[1].ev = "Banned"
    /\ LastTaken[2].ev = "DisconnectPeer"
    /\ LastTaken[3].ev = "Status"
    /\ poll_ret.ev = "StatusPeer"
    /\ Len(poll_calls) = 2
    /\ "p1" \in disc_banned

\* the entries of the last discover_subnet_peers call whose subnet has fewer
\* good peers than the target, the cached ENRs that serve one of them, the
\* ENRs that left the cache, and the number of dial requests
Survivors ==
    SelectSeq(disc_in.list, LAMBDA e : good_peers[e.subnet] < TARGET_SUBNET_PEERS)
Matching ==
    {enr \in disc_in.cache :
        \E i \in 1..Len(Survivors) : Survivors[i].subnet \in enr.subnets}
Removed == disc_in.cache \ cached_enrs
RECURSIVE DialCountOf(_)
DialCountOf(dials) ==
    IF dials = <<>> THEN 0 ELSE Cardinality(Head(dials)) + DialCountOf(Tail(dials))
DialedIds == UNION {disc_out.dials[i] : i \in 1..Len(disc_out.dials)}

\* C22: an entry whose subnet has the target number of good peers is in no
\* DHT query, every ENR removed or dialed serves the subnet of an entry
\* below the target, and when no entry is below the target nothing is
\* removed, dialed or queried.
C22_FullSubnetDropped ==
    /\ \A i \in 1..Len(disc_out.queries) : \A j \in 1..Len(disc_out.queries[i]) :
          good_peers[disc_out.queries[i][j].subnet] < TARGET_SUBNET_PEERS
    /\ Removed \subseteq Matching
    /\ DialedIds \subseteq {enr.id : enr \in Matching}
    /\ Survivors = <<>> =>
          disc_out.queries = <<>> /\ Removed = {} /\ DialCountOf(disc_out.dials) = 0

\* C22 witness: a call with an entry at the target and an entry below it;
\* the ENR that only serves the first stays cached, the query has only the
\* second.
C22_Witness ==
    /\ Len(disc_in.list) = 2
    /\ good_peers[disc_in.list[1].subnet] = TARGET_SUBNET_PEERS
    /\ good_peers[disc_in.list[2].subnet] < TARGET_SUBNET_PEERS
    /\ disc_out.queries = << <<disc_in.list[2]>> >>
    /\ \E enr \in cached_enrs : enr.subnets = {disc_in.list[1].subnet}
    /\ Removed # {}

\* what the claim says of a call with an entry below the target
SurvivorsDialedAndQueried ==
    /\ Removed = Matching
    /\ DialedIds = {enr.id : enr \in Matching}
    /\ DialCountOf(disc_out.dials) = Cardinality(Matching)
    /\ disc_out.queries = <<Survivors>>

\* C23 (as stated): after a call with entries below the target, the cached
\* ENRs that serve them are removed and dialed once each and the entries go
\* out as one DHT query.
C23_DialAndQuery ==
    Survivors # <<>> => SurvivorsDialedAndQueried

\* C23 (amended): the same when discovery is started.
C23_DialAndQueryIfStarted ==
    (disc_started /\ Survivors # <<>>) => SurvivorsDialedAndQueried

\* C23 witness: two cached ENRs serve the subnet, which has no good peer:
\* two removals, two dial requests, one query.
C23_Witness ==
    /\ disc_started
    /\ Len(disc_in.list) = 1 /\ disc_in.list[1].min_ttl = "None"
    /\ good_peers[disc_in.list[1].subnet] = 0
    /\ Cardinality(Removed) = 2
    /\ DialCountOf(disc_out.dials) = 2
    /\ Len(disc_out.queries) = 1

\* the listen addresses start tries, and the first of them that fails
Attempted ==
    SelectSeq(config.listen, LAMBDA a : ~(a.quic /\ config.disable_quic))
FirstFailure ==
    IF \E i \in 1..Len(Attempted) : ~Attempted[i].ok
    THEN CHOOSE i \in 1..Len(Attempted) :
             ~Attempted[i].ok /\ \A j \in 1..(i - 1) : Attempted[j].ok
    ELSE 0

\* C24: start fails exactly when a listen address it tries is refused, and
\* then its calls are the listen calls up to the first refused address: no
\* dial, no subscription, and the subscription set is empty.
C24_ListenFailureFatal ==
    start_out.result # "-" =>
        /\ start_out.result = "Err" <=> FirstFailure # 0
        /\ FirstFailure # 0 =>
              /\ start_out.trace =
                     [i \in 1..FirstFailure |->
                         <<"listen", IF Attempted[i].quic THEN "quic" ELSE "tcp",
                           IF i < FirstFailure THEN "Ok" ELSE "Err">>]
              /\ gossipsub_subscriptions = {}
              /\ gs_subscribed = {}

\* C24 witness: the second listen address is refused in a configuration with
\* peers to dial and topics to subscribe.
C24_Witness ==
    /\ start_out.result = "Err"
    /\ FirstFailure = 2
    /\ config.libp2p_nodes # <<>>
    /\ config.boot_nodes_enr # <<>>
    /\ config.topics # <<>>

\* C31: of the identify events the last poll took, each Received event gave
\* the peer manager one identify call with the first ten (or all, if ten or
\* fewer) listen addresses, the others gave nothing, and none gave an event.
C31_IdentifyTruncated ==
    LET new == LastTaken
        received == {i \in 1..Len(new) : new[i].kind = "Identify" /\ new[i].ev = "Received"}
        calls == CallsNamed({"pm_identify"})
    IN /\ Cardinality(calls) = Cardinality(received)
       /\ \A j \in calls : Len(poll_calls[j]) <= 2 + MAX_IDENTIFY_ADDRESSES
       /\ \A i \in received :
             /\ \E j \in calls :
                   poll_calls[j] = <<"pm_identify", new[i].peer>>
                       \o [k \in 1..(IF Len(new[i].body) > 10 THEN 10 ELSE Len(new[i].body))
                              |-> new[i].body[k]]
             /\ i = Len(new) => poll_ret = Pending
       /\ \A i \in 1..Len(new) :
             (new[i].kind = "Identify" /\ i = Len(new)) => poll_ret = Pending

\* C31 witness: a poll took a Received event with twelve listen addresses and
\* the peer manager was given ten.
C31_Witness ==
    /\ poll_taken = 1
    /\ LastTaken[1].kind = "Identify"
    /\ Len(LastTaken[1].body) = 12
    /\ Len(poll_calls) = 1
    /\ Len(poll_calls[1]) = 12
    /\ poll_ret = Pending

\* C32: of the SlowPeer events the last poll took, those with a total above
\* ten gave the peer manager one HighToleranceError report each (also when
\* both totals are above ten), the others none.
C32_SlowPeerOneReport ==
    LET new == LastTaken
        slow == {i \in 1..Len(new) : new[i].kind = "Gossipsub" /\ new[i].ev = "SlowPeer"}
        above == {i \in slow : new[i].body[1] > 10 \/ new[i].body[2] > 10}
        reports == CallsNamed({"pm_report_peer"})
    IN /\ Cardinality(reports) = Cardinality(above)
       /\ \A j \in reports : poll_calls[j][3] = "HighToleranceError"

\* C32 witness: a poll took a SlowPeer event with both totals above ten, and
\* one with both at ten, and the peer manager got one report.
C32_Witness ==
    /\ poll_taken = 2
    /\ LastTaken[1].ev = "SlowPeer" /\ LastTaken[1].body = <<11, 11>>
    /\ LastTaken[2].ev = "SlowPeer" /\ LastTaken[2].body = <<10, 10>>
    /\ Len(poll_calls) = 1

\* the positions of the trace of start where boot ENR b is dialed over proto
BootDials(b, proto) ==
    {i \in 1..Len(start_out.trace) : start_out.trace[i] = <<"dial", b, proto>>}
BootEnrs == {config.boot_nodes_enr[i] : i \in 1..Len(config.boot_nodes_enr)}

\* C33: after a successful start every distinct boot ENR was handled once:
\* at most one QUIC dial (none with QUIC disabled) and at most one TCP dial,
\* the QUIC dial before the TCP dial, and no dial for an ENR whose peer was
\* connected or dialing.
C33_BootEnrOnce ==
    start_out.result = "Ok" =>
        \A b \in BootEnrs :
            /\ Cardinality(BootDials(b, "quic")) <= 1
            /\ Cardinality(BootDials(b, "tcp")) <= 1
            /\ config.disable_quic => BootDials(b, "quic") = {}
            /\ \A i \in BootDials(b, "quic"), j \in BootDials(b, "tcp") : i < j
            /\ b \in config.known => BootDials(b, "quic") \cup BootDials(b, "tcp") = {}

\* the stage of start an entry of its trace belongs to
StartStage(entry) ==
    CASE entry[1] = "listen" -> 1
      [] entry[1] = "dial" /\ entry[2] \in {"a1"} -> 2
      [] entry[1] = "dial" /\ entry[2] \notin {"a1"} -> 3
      [] entry[1] = "subscribe" -> 4

\* C34: the calls of start are in the order listen, dial the given peers,
\* dial the boot nodes, subscribe; a dial or a subscription follows the
\* acceptance of every listen address start tries; and after a successful
\* start the subscription set is the configured kinds at the fork digest.
C34_StartOrder ==
    LET trace == start_out.trace
    IN start_out.result # "-" =>
        /\ \A i, j \in 1..Len(trace) : i < j => StartStage(trace[i]) <= StartStage(trace[j])
        /\ (\E i \in 1..Len(trace) : StartStage(trace[i]) > 1) =>
              /\ Len(trace) >= Len(Attempted)
              /\ \A i \in 1..Len(Attempted) :
                    trace[i] = <<"listen", IF Attempted[i].quic THEN "quic" ELSE "tcp", "Ok">>
        /\ start_out.result = "Ok" =>
              /\ gossipsub_subscriptions =
                     {GossipTopic(config.topics[i], enr_fork_id) : i \in 1..Len(config.topics)}
              /\ Len(SelectSeq(trace, LAMBDA e : e[1] = "subscribe")) = Len(config.topics)

\* C34 witness: a successful start that listened on two addresses, dialed a
\* given peer and a boot node, and subscribed to BeaconBlock alone.
C34_Witness ==
    /\ start_out.result = "Ok"
    /\ Len(Attempted) = 2
    /\ <<"dial", "a1", "tcp">> \in {start_out.trace[i] : i \in 1..Len(start_out.trace)}
    /\ BootDials("b1", "tcp") # {}
    /\ config.topics = <<"BeaconBlock">>
    /\ gossipsub_subscriptions = {GossipTopic("BeaconBlock", enr_fork_id)}

\* C35: a call of update_gossipsub_parameters that returned Ok has set the
\* parameters of the beacon block topic, of the aggregate topic and of the
\* attestation topic of every subnet below the subnet count, each once, all
\* at the fork digest of the time of the call, the subnets with one and the
\* same parameters.
C35_AllTopicGroupsSet ==
    LET calls == score_out.calls
        made == {calls[j] : j \in 1..Len(calls)}
        d == score_in.fork_digest
    IN score_out.result = "Ok" =>
        /\ Len(calls) = 2 + score_in.count
        /\ \A j \in 1..Len(calls) :
              calls[j][1] = "set_topic_params" /\ calls[j][2].fork_digest = d
        /\ \E p \in {"beacon_block_params"} :
              SetTopicParams(ScoreTopic("BeaconBlock", 0, d), p) \in made
        /\ \E p \in {"beacon_aggregate_proof_params"} :
              SetTopicParams(ScoreTopic("BeaconAggregateAndProof", 0, d), p) \in made
        /\ \A i \in 0..(score_in.count - 1) :
              SetTopicParams(ScoreTopic("Attestation", i, d),
                             "beacon_attestation_subnet_params") \in made

\* C35 witness: a call with three attestation subnets, made after the fork
\* digest became D2, returned Ok after five set_topic_params calls.
C35_Witness ==
    /\ score_out.result = "Ok"
    /\ score_in.count = 3
    /\ score_in.fork_digest = "D2"
    /\ Len(score_out.calls) = 5

C37_RetriedOnce ==
    (cache_op.op = "subscribed" /\ cache_op.topic \in CacheTopics) =>
        /\ gossip_cache = [cache_op.cache EXCEPT ![cache_op.topic] = <<>>]
        /\ CacheCount(gossip_cache) = cache_op.count - Len(cache_op.msgs)
        /\ \A p \in Payloads :
              Cardinality({j \in 1..Len(gs_publishes) : gs_publishes[j].data = p})
                  = Cardinality({i \in 1..Len(cache_op.msgs) : cache_op.msgs[i] = p})

\* C37 witness: two cached payloads were retried, one found no peers and one
\* was a duplicate, and the cache has neither.
C37_Witness ==
    /\ cache_op.op = "subscribed"
    /\ cache_op.msgs = <<"m1", "m2">>
    /\ Len(gs_publishes) = 2
    /\ gs_publishes[1].result = "InsufficientPeers"
    /\ gs_publishes[2].result = "Duplicate"
    /\ gossip_cache[cache_op.topic] = <<>>

\* the last update_enr_subnet call left the ENR as it was: update_enr_bitfield
\* answered Err, or the bit had the requested value
EnrSubnetCallInVain ==
    /\ meta_call_in # NoEnrSubnetCall
    /\ \/ ~meta_call_in.ok
       \/ (meta_call_in.subnet \in meta_call_in.enr) = meta_call_in.value

\* C38: when an update_enr_subnet call has returned, the metadata sequence
\* number is one above what it was at the call, the RPC layer was given that
\* number, the metadata file equals the metadata, and the attestation and
\* sync committee bitfields of the metadata are those of the local ENR; this
\* also when the call left the ENR as it was.
C38_EveryCallBumps ==
    (meta_pc = "idle" /\ meta_call_in # NoEnrSubnetCall) =>
        /\ local_metadata.seq_number = meta_call_seq + 1
        /\ rpc_seq_number = local_metadata.seq_number
        /\ disk_metadata = local_metadata
        /\ local_metadata.attnets = attestation_bitfield(enr_bits)
        /\ local_metadata.syncnets = sync_committee_bitfield(enr_bits)
        /\ EnrSubnetCallInVain => enr_bits = meta_call_in.enr

\* C38 witness: update_enr_bitfield answered Err on an ENR with a bit set; the
\* call returned with the ENR unchanged, the number raised and the file
\* rewritten.
C38_Witness ==
    /\ meta_pc = "idle"
    /\ ~meta_call_in.ok
    /\ meta_call_in.enr # {}
    /\ enr_bits = meta_call_in.enr
    /\ local_metadata.seq_number = meta_call_seq + 1
    /\ rpc_seq_number = local_metadata.seq_number
    /\ disk_metadata = local_metadata

\* the topics that a step adds to or removes from the subscription set or
\* from the topics gossipsub is subscribed to
TouchedTopics ==
    {t \in Topics :
        \/ (t \in gossipsub_subscriptions') # (t \in gossipsub_subscriptions)
        \/ (t \in gs_subscribed') # (t \in gs_subscribed)}

\* C39: the active fork digest changes only in update_fork_version, which
\* sets it to its argument and leaves the subscriptions alone;
\* subscribe_new_fork_topics leaves it as it is; and subscribe_kind,
\* unsubscribe_kind, publish and update_gossipsub_parameters name topics at
\* the active digest only.
C39_ActiveDigest ==
    [][/\ enr_fork_id' # enr_fork_id =>
             /\ call'.op = "update_fork_version"
             /\ call'.D = enr_fork_id'
             /\ gossipsub_subscriptions' = gossipsub_subscriptions
             /\ gs_subscribed' = gs_subscribed
       /\ (call'.op = "subscribe_new_fork_topics" /\ call' # call) =>
             enr_fork_id' = enr_fork_id
       /\ call'.op \in {"subscribe_kind", "unsubscribe_kind"} =>
             TouchedTopics \subseteq {GossipTopic(call'.F, enr_fork_id)}
       /\ (call'.op = "subscribe_kind" /\ call' # call) =>
             GossipTopic(call'.F, enr_fork_id) \in gossipsub_subscriptions'
       /\ gs_publishes' # gs_publishes =>
             \A i \in 1..Len(gs_publishes') :
                 gs_publishes'[i].topic.fork_digest = enr_fork_id
       /\ score_out' # score_out =>
             \A j \in 1..Len(score_out'.calls) :
                 score_out'.calls[j][2].fork_digest = enr_fork_id]_vars

\* C39 witness: the topics of digest D2 were subscribed while D1 is the active
\* digest, and a publish and a score parameter update went out at D1.
C39_Witness ==
    /\ enr_fork_id = "D1"
    /\ call.op = "subscribe_new_fork_topics" /\ call.D = "D2"
    /\ GossipTopic("BeaconBlock", "D2") \in gossipsub_subscriptions
    /\ gs_publishes # <<>> /\ gs_publishes[1].topic.fork_digest = "D1"
    /\ score_out.result = "Ok" /\ score_in.fork_digest = "D1"

\* C40: a poll that returns an event leaves the elapsed ticks and the expired
\* topics as they are and makes none of the calls of the two timer loops;
\* and, the host polling on, elapsed ticks and expired topics are serviced
\* in the end.
C40_TimersDeferred ==
    /\ [][poll_emitted' # poll_emitted =>
             /\ score_ticks' = score_ticks
             /\ cache_ready' = cache_ready
             /\ \A j \in 1..Len(poll_calls') :
                   poll_calls'[j][1] \notin {"pm_update_gossipsub_scores",
                                             "inc_expired_late_publish"}]_vars
    /\ (score_ticks > 0) ~> (score_ticks = 0)
    /\ (cache_ready # <<>>) ~> (cache_ready = <<>>)

\* C40 witness: a poll returned an event while a tick had elapsed and a topic
\* had expired; both are still waiting.
C40_Witness ==
    /\ poll_ret # Pending
    /\ poll_taken >= 1
    /\ score_ticks > 0
    /\ cache_ready # <<>>
    /\ CallsNamed({"pm_update_gossipsub_scores", "inc_expired_late_publish"}) = {}

====
